---- MODULE Spec2Model ----
(***************************************************************************)
(* The chat session store of frontend/src/lib/websocket.js together with   *)
(* the submit guard of the Chat view (components/Chat.svelte).             *)
(*                                                                         *)
(* The store is a set of module-level variables (the svelte stores, the    *)
(* socket handle ws, the retry counter) mutated by exported functions and  *)
(* by the four handlers that connect() binds to every socket it creates.   *)
(* JavaScript runs one task at a time, so every function call and every    *)
(* handler invocation is one atomic action.                                *)
(*                                                                         *)
(* Socket objects live in slots.  A slot is FREE until `new WebSocket`     *)
(* takes it and becomes FREE again once the socket is CLOSED, its close    *)
(* event has been dispatched and ws no longer refers to it (nothing can    *)
(* observe such an object any more).                                       *)
(***************************************************************************)
EXTENDS Integers, Sequences, FiniteSets, Bags, TLC

\* ---------------------------------------------------------------- bounds
MaxPending == 2      \* sockets not yet closed plus reconnect timers pending
MaxQueue   == 2      \* frames in flight from the client to the backend, per socket
MaxInFlight == 1     \* frames in flight from the backend to the client, per socket
MaxMsgs    == 3      \* length of the message list
MaxPercent == 120    \* the percentage a budget sentence states
MaxFragments == 3    \* sentences of a reply
MaxTransactions == 4 \* transactions of a statement
MaxMonths  == 13     \* months of a transaction history
MaxLines   == 2      \* lines of a list in a reply
MaxPieces  == 3      \* pieces of a reply that is made of marker characters

\* ------------------------------------------------------ program constants
MAX_RECONNECT_ATTEMPTS == 5
RECONNECT_DELAY        == 2000

\* null, for the stores that hold text
Null == "null"

\* null, for ws (sockets are numbered from 1)
NoSocket == 0

\* null, for the session id (the backend's ids are numbered from 1)
NoSession == 0

\* ConnectionState (websocket.js:7-12)
DISCONNECTED == "disconnected"
CONNECTING   == "connecting"
CONNECTED    == "connected"
ERROR        == "error"
ConnectionState == {DISCONNECTED, CONNECTING, CONNECTED, ERROR}

\* WebSocket.readyState, plus FREE for a slot that holds no socket
ReadyState == {"CONNECTING", "OPEN", "CLOSING", "CLOSED"}

\* A socket object occupies a slot from `new WebSocket` until its close event
\* has been dispatched and ws refers to it no more.  connect() always finds
\* one: fewer than MaxPending sockets are unclosed when it runs, and a closed
\* socket that ws refers to gives way to the new one.
Slots == 1 .. MaxPending

\* texts the caller may submit: one with content, one that trims to nothing
Texts == {"hi", " "}

\* \s
WhiteSpace == {" ", "\t", "\n"}

\* text.trimStart(), text.trimEnd()
RECURSIVE trimStart(_)
trimStart(text) ==
  IF text # "" /\ Head(text) \in WhiteSpace THEN trimStart(Tail(text)) ELSE text

RECURSIVE trimEnd(_)
trimEnd(text) ==
  IF text # "" /\ SubSeq(text, Len(text), Len(text)) \in WhiteSpace
    THEN trimEnd(SubSeq(text, 1, Len(text) - 1))
    ELSE text

\* text.trim()
trim(text) == trimEnd(trimStart(text))

\* frames the client puts on the wire (JSON.stringify of these objects)
ChatFrame(text) == [type |-> "chat", payload |-> [message |-> text]]
CancelFrame     == [type |-> "cancel"]
ClearFrame      == [type |-> "clear"]
PingFrame       == [type |-> "ping"]

\* frames the backend pushes, as the objects their text decodes to
ConnectedFrame(sid) ==
  [type |-> "connected", payload |-> [session_id |-> sid, stats |-> "stats"]]
ChatResponseFrame ==
  [type |-> "chat_response", payload |-> [message |-> "answer", timestamp |-> "t1"]]
ChatResponseWithTransactions ==
  [type |-> "chat_response",
   payload |-> [message |-> "answer", transactions |-> << "tx" >>,
                timestamp |-> "t1"]]
ErrorFrame ==
  [type |-> "error", payload |-> [message |-> "boom", code |-> "E1"]]
CancelledFrame == [type |-> "cancelled"]
PongFrame      == [type |-> "pong"]
ClearedFrame   == [type |-> "cleared"]

\* what else may arrive: a frame of a type the protocol does not know, and
\* text that is not JSON at all
BogusFrame == [type |-> "bogus"]
NotJSON    == [text |-> "{oops"]

\* frames of a known type that lack the payload the handler reads
ConnectedNoPayload    == [type |-> "connected"]
ChatResponseNoPayload == [type |-> "chat_response"]

\* JSON.parse(event.data) returns an object, or throws
Decodable(text) == "text" \notin DOMAIN text

\* data.type (undefined when the object has no such property)
typeOf(data) == IF "type" \in DOMAIN data THEN data.type ELSE "undefined"

\* payload[field] || default
OrElse(payload, field, default) ==
  IF field \in DOMAIN payload THEN payload[field] ELSE default

\* entries of the message list (the timestamp of a user or error entry is the
\* client's clock and is left out)
UserMessage(text) == [role |-> "user", content |-> text]

\* an assistant entry that drops the transactions the frame carries
AssistantMessage_without_transactions(data) ==
  [role |-> "assistant",
   content |-> data.payload.message,
   transactions |-> << >>,
   timestamp |-> data.payload.timestamp,
   llmStats |-> OrElse(data.payload, "llm_stats", Null)]

AssistantMessage(data) ==
  [role |-> "assistant",
   content |-> data.payload.message,
   transactions |-> OrElse(data.payload, "transactions", << >>),
   timestamp |-> data.payload.timestamp,
   llmStats |-> OrElse(data.payload, "llm_stats", Null)]

\* an error entry that carries the message as its code
ErrorMessage_without_code(data) ==
  [role |-> "error", content |-> data.payload.message, code |-> data.payload.message]

ErrorMessage(data) ==
  [role |-> "error", content |-> data.payload.message, code |-> data.payload.code]

FreeSocket == [readyState |-> "FREE", inq |-> << >>, outq |-> << >>, busy |-> FALSE]
NewSocket  == [readyState |-> "CONNECTING", inq |-> << >>, outq |-> << >>, busy |-> FALSE]

VARIABLES
  connectionState,    \* store connectionState
  sessionId,          \* store sessionId
  messages,           \* store messages
  isThinking,         \* store isThinking
  error,              \* store error
  stats,              \* store stats
  ws,                 \* module variable ws: NoSocket or the slot of a socket
  reconnectAttempts,  \* module variable reconnectAttempts
  timers,             \* bag of the delays of the pending setTimeout(connect, d)
  sock,               \* the sockets: readyState, frames in flight, backend busy
  task,               \* 0, or the socket whose failure task has run onerror
                      \* and is about to run onclose
  message,            \* ChatMessage.svelte: the prop message
  budgetInfo,         \* ChatMessage.svelte: $: budgetInfo
  spendingChart,      \* ChatMessage.svelte: $: spendingChart
  formattedContent    \* ChatMessage.svelte: $: formattedContent

vars == << connectionState, sessionId, messages, isThinking, error, stats,
           ws, reconnectAttempts, timers, sock, task,
           message, budgetInfo, spendingChart, formattedContent >>

store == << connectionState, sessionId, messages, isThinking, error, stats >>

\* the session: the stores and the connection manager's own state
session == << store, ws, reconnectAttempts, timers, sock, task >>

\* one ChatMessage component: its prop and its reactive values
component == << message, budgetInfo, spendingChart, formattedContent >>

\* no message is being rendered
NoMessage == [role |-> "none"]

\* null, for budgetInfo and spendingChart
NoWidget == [widget |-> "none"]

\* the component before it is given a message
Unmounted ==
  /\ message = NoMessage
  /\ budgetInfo = NoWidget
  /\ spendingChart = NoWidget
  /\ formattedContent = ""

Init ==
  /\ connectionState = DISCONNECTED
  /\ sessionId = NoSession
  /\ messages = << >>
  /\ isThinking = FALSE
  /\ error = Null
  /\ stats = Null
  /\ ws = NoSocket
  /\ reconnectAttempts = 0
  /\ timers = EmptyBag
  /\ sock = [s \in Slots |-> FreeSocket]
  /\ task = 0
  /\ Unmounted

\* derived store isConnected
isConnected == connectionState = CONNECTED

\* ws && ws.readyState === WebSocket.OPEN
wsOpen == ws # NoSocket /\ sock[ws].readyState = "OPEN"

Min(S) == CHOOSE x \in S : \A y \in S : x <= y

\* sockets that are connecting or open
Live == {s \in Slots : sock[s].readyState \in {"CONNECTING", "OPEN"}}

\* slots `new WebSocket` can use: free ones, and the slot of a closed socket
\* that only ws still refers to (connect() overwrites ws)
Avail == {s \in Slots : \/ sock[s].readyState = "FREE"
                        \/ (s = ws /\ sock[s].readyState = "CLOSED")}

\* the sockets once ws stops referring to its socket: a closed one is freed
Release(sk) ==
  IF ws # NoSocket /\ sk[ws].readyState = "CLOSED"
    THEN [sk EXCEPT ![ws] = FreeSocket]
    ELSE sk

\* connect() that tells by the store, not by the socket, whether there is a
\* connection already
connect_when_connected(tm) ==
  IF isConnected
    THEN /\ timers' = tm
         /\ UNCHANGED << store, ws, reconnectAttempts, sock, task >>
    ELSE /\ Avail # {}
         /\ connectionState' = CONNECTING
         /\ error' = Null
         /\ ws' = Min(Avail)
         /\ sock' = [Release(sock) EXCEPT ![Min(Avail)] = NewSocket]
         /\ timers' = tm
         /\ UNCHANGED << sessionId, messages, isThinking, stats,
                         reconnectAttempts, task >>

\* connect(), called with the timers that remain pending
connect(tm) ==
  IF wsOpen
    THEN /\ timers' = tm
         /\ UNCHANGED << store, ws, reconnectAttempts, sock, task >>
    ELSE /\ Avail # {}
         /\ connectionState' = CONNECTING
         /\ error' = Null
         /\ ws' = Min(Avail)
         /\ sock' = [Release(sock) EXCEPT ![Min(Avail)] = NewSocket]
         /\ timers' = tm
         /\ UNCHANGED << sessionId, messages, isThinking, stats,
                         reconnectAttempts, task >>

\* sockets whose close event is still to come
Unclosed == {s \in Slots : sock[s].readyState \in {"CONNECTING", "OPEN", "CLOSING"}}

\* Every socket ends with a close event, which may set a timer, and every
\* timer makes a socket: the caller starts a connection only while fewer
\* than MaxPending of the two exist, so that no handler is ever held back.
ConnectRoom == BagCardinality(timers) + Cardinality(Unclosed) < MaxPending

\* the caller invokes connect() (Chat.svelte onMount, or any importer)
Connect ==
  /\ task = 0
  /\ wsOpen \/ ConnectRoom
  /\ connect(timers)
  /\ UNCHANGED component

\* a reconnect timer set by onclose expires and runs connect()
TimerFire ==
  /\ task = 0
  /\ \E d \in BagToSet(timers) : connect(timers (-) SetToBag({d}))
  /\ UNCHANGED component

\* ws.onopen
onopen ==
  /\ reconnectAttempts' = 0

\* The backend accepts the connection and pushes its connected frame (the
\* session identity it assigns is tied to the connection), or accepts it and
\* stays silent (it is stopping, and will drop the connection).
Accept(s) == {<< ConnectedFrame(s) >>, << >>}

\* the transport of socket s opens: readyState becomes OPEN and onopen runs
OnOpen(s) ==
  /\ task = 0
  /\ sock[s].readyState = "CONNECTING"
  /\ onopen
  /\ \E q \in Accept(s) :
       sock' = [sock EXCEPT ![s].readyState = "OPEN", ![s].inq = q]
  /\ UNCHANGED << store, ws, timers, task >>
  /\ UNCHANGED component

\* ws.onerror that reports the error and leaves the state to onclose
onerror_without_state ==
  /\ error' = "Connection error"
  /\ connectionState' = DISCONNECTED

\* ws.onerror
onerror ==
  /\ error' = "Connection error"
  /\ connectionState' = ERROR

\* ws.onclose with the reconnect scheduled before the counter is incremented
onclose_schedule_first ==
  /\ connectionState' = DISCONNECTED
  /\ sessionId' = NoSession
  /\ IF reconnectAttempts < MAX_RECONNECT_ATTEMPTS
       THEN /\ timers' = timers (+) SetToBag({RECONNECT_DELAY * reconnectAttempts})
            /\ reconnectAttempts' = reconnectAttempts + 1
       ELSE UNCHANGED << reconnectAttempts, timers >>

\* ws.onclose
onclose ==
  /\ connectionState' = DISCONNECTED
  /\ sessionId' = NoSession
  /\ IF reconnectAttempts < MAX_RECONNECT_ATTEMPTS
       THEN /\ reconnectAttempts' = reconnectAttempts + 1
            /\ timers' = timers (+) SetToBag({RECONNECT_DELAY * (reconnectAttempts + 1)})
       ELSE UNCHANGED << reconnectAttempts, timers >>

\* a socket whose close event has been dispatched: still referred to by ws,
\* or garbage
Closed(s) ==
  IF ws = s THEN [FreeSocket EXCEPT !.readyState = "CLOSED"] ELSE FreeSocket

\* The connection of socket s fails (refused, reset, or closed by close()
\* before it was established).  The browser runs one task: readyState becomes
\* CLOSED, the error event is fired, then the close event.  This is the first
\* half of that task; no other handler runs before OnClose(s).
OnError(s) ==
  /\ task = 0
  /\ sock[s].readyState \in {"CONNECTING", "OPEN", "CLOSING"}
  /\ onerror
  /\ sock' = [sock EXCEPT ![s] = [FreeSocket EXCEPT !.readyState = "CLOSED"]]
  /\ task' = s
  /\ UNCHANGED << sessionId, messages, isThinking, stats, ws,
                  reconnectAttempts, timers >>
  /\ UNCHANGED component

\* The close event of socket s: the second half of a failure task, or a clean
\* close (by the backend, or the end of the closing handshake close() began).
OnClose(s) ==
  /\ \/ task = s
     \/ task = 0 /\ sock[s].readyState \in {"OPEN", "CLOSING"}
  /\ onclose
  /\ sock' = [sock EXCEPT ![s] = Closed(s)]
  /\ task' = 0
  /\ UNCHANGED << messages, isThinking, error, stats, ws >>
  /\ UNCHANGED component

\* ws.close(): a connecting or open socket starts closing and delivers no
\* further message event; on a closing or closed socket it does nothing
close(sk, s) ==
  IF sk[s].readyState \in {"CONNECTING", "OPEN"}
    THEN [sk EXCEPT ![s] = [FreeSocket EXCEPT !.readyState = "CLOSING"]]
    ELSE sk

\* disconnect()
disconnect ==
  /\ IF ws # NoSocket
       THEN /\ sock' = Release(close(sock, ws))
            /\ ws' = NoSocket
       ELSE UNCHANGED << sock, ws >>
  /\ connectionState' = DISCONNECTED
  /\ sessionId' = NoSession
  /\ UNCHANGED << messages, isThinking, error, stats, reconnectAttempts,
                  timers, task >>

\* the caller invokes disconnect() (Chat.svelte on unmount, or any importer)
Disconnect ==
  /\ task = 0
  /\ disconnect
  /\ UNCHANGED component

\* data.payload is an object: reading a property of it does not throw
hasPayload(data) == "payload" \in DOMAIN data

\* handleMessage(data) with a default branch that reports the unknown type to
\* the user
handleMessage_surfaces_unknown(data) ==
  CASE typeOf(data) = "connected" ->
         /\ connectionState' = CONNECTED
         /\ IF hasPayload(data)
              THEN /\ sessionId' = data.payload.session_id
                   /\ stats' = data.payload.stats
              ELSE UNCHANGED << sessionId, stats >>
         /\ UNCHANGED << messages, isThinking, error >>
    [] typeOf(data) = "chat_response" ->
         /\ isThinking' = FALSE
         /\ IF hasPayload(data)
              THEN messages' = Append(messages, AssistantMessage(data))
              ELSE UNCHANGED messages
         /\ UNCHANGED << connectionState, sessionId, error, stats >>
    [] typeOf(data) = "error" ->
         /\ isThinking' = FALSE
         /\ IF hasPayload(data)
              THEN /\ error' = data.payload.message
                   /\ messages' = Append(messages, ErrorMessage(data))
              ELSE UNCHANGED << error, messages >>
         /\ UNCHANGED << connectionState, sessionId, stats >>
    [] typeOf(data) = "cancelled" ->
         /\ isThinking' = FALSE
         /\ UNCHANGED << connectionState, sessionId, messages, error, stats >>
    [] typeOf(data) = "pong" -> UNCHANGED store
    [] typeOf(data) = "cleared" -> UNCHANGED store
    [] OTHER ->
         /\ error' = "Unknown message type"
         /\ UNCHANGED << connectionState, sessionId, messages, isThinking, stats >>

\* handleMessage(data).  It runs inside the try block of ws.onmessage: when
\* data has no payload, the first data.payload.<field> throws a TypeError,
\* which the catch block logs; the assignments made before it stay
\* (messages.update does not set the store when its callback throws).
handleMessage(data) ==
  CASE typeOf(data) = "connected" ->
         /\ connectionState' = CONNECTED
         /\ IF hasPayload(data)
              THEN /\ sessionId' = data.payload.session_id
                   /\ stats' = data.payload.stats
              ELSE UNCHANGED << sessionId, stats >>
         /\ UNCHANGED << messages, isThinking, error >>
    [] typeOf(data) = "chat_response" ->
         /\ isThinking' = FALSE
         /\ IF hasPayload(data)
              THEN messages' = Append(messages, AssistantMessage(data))
              ELSE UNCHANGED messages
         /\ UNCHANGED << connectionState, sessionId, error, stats >>
    [] typeOf(data) = "error" ->
         /\ isThinking' = FALSE
         /\ IF hasPayload(data)
              THEN /\ error' = data.payload.message
                   /\ messages' = Append(messages, ErrorMessage(data))
              ELSE UNCHANGED << error, messages >>
         /\ UNCHANGED << connectionState, sessionId, stats >>
    [] typeOf(data) = "cancelled" ->
         /\ isThinking' = FALSE
         /\ UNCHANGED << connectionState, sessionId, messages, error, stats >>
    [] typeOf(data) = "pong" -> UNCHANGED store
    [] typeOf(data) = "cleared" -> UNCHANGED store
    [] OTHER -> UNCHANGED store

\* ws.onmessage, with event.data = text: text that does not parse throws
\* inside the try block and is logged
onmessage(text) ==
  IF Decodable(text)
    THEN handleMessage(text)
    ELSE UNCHANGED store

\* the message event of socket s: the next frame the backend pushed arrives
OnMessage(s) ==
  /\ task = 0
  /\ sock[s].readyState = "OPEN"
  /\ sock[s].inq # << >>
  /\ onmessage(Head(sock[s].inq))
  /\ sock' = [sock EXCEPT ![s].inq = Tail(@)]
  /\ UNCHANGED << ws, reconnectAttempts, timers, task >>
  /\ UNCHANGED component

\* the number of frames of the given types (all of which carry a payload) in
\* a queue
RECURSIVE Count(_, _)
Count(q, types) ==
  IF q = << >> THEN 0
  ELSE (IF typeOf(Head(q)) \in types /\ hasPayload(Head(q)) THEN 1 ELSE 0)
         + Count(Tail(q), types)

\* the chat requests of socket s that are sent and not yet answered: on the
\* wire, in generation, or answered by a frame that has not arrived yet
OutstandingOn(s) ==
  Count(sock[s].outq, {"chat"})
    + (IF sock[s].busy THEN 1 ELSE 0)
    + Count(sock[s].inq, {"chat_response", "error"})

RECURSIVE Sum(_, _)
Sum(f, S) ==
  IF S = {} THEN 0
  ELSE LET x == CHOOSE y \in S : TRUE IN f[x] + Sum(f, S \ {x})

Outstanding == Sum([s \in Slots |-> OutstandingOn(s)], Slots)

\* Every chat request appends the user's message now and at most one reply
\* later: the caller sends only while the list has room for both, so that no
\* reply is ever held back.
MessageRoom == Len(messages) + Outstanding + 2 <= MaxMsgs

\* ws.send(frame) on the socket ws refers to
send(frame) == [sock EXCEPT ![ws].outq = Append(@, frame)]

\* room on the wire towards the backend
SendRoom == Len(sock[ws].outq) < MaxQueue

\* sendMessage(text)
sendMessage(text) ==
  IF ~wsOpen
    THEN /\ error' = "Not connected"
         /\ UNCHANGED << connectionState, sessionId, messages, isThinking, stats,
                         ws, reconnectAttempts, timers, sock, task >>
    ELSE IF trim(text) = ""
      THEN UNCHANGED vars
      ELSE /\ MessageRoom
           /\ SendRoom
           /\ messages' = Append(messages, UserMessage(text))
           /\ isThinking' = TRUE
           /\ error' = Null
           /\ sock' = send(ChatFrame(text))
           /\ UNCHANGED << connectionState, sessionId, stats, ws,
                           reconnectAttempts, timers, task >>

\* a caller invokes the exported sendMessage directly
SendMessage ==
  /\ task = 0
  /\ \E text \in Texts : sendMessage(text)
  /\ UNCHANGED component

\* Chat.svelte handleSubmit with inputText = text
handleSubmit(text) ==
  IF trim(text) # "" /\ isConnected /\ ~isThinking
    THEN sendMessage(text)
    ELSE UNCHANGED vars

\* the user submits the chat form
HandleSubmit ==
  /\ task = 0
  /\ \E text \in Texts : handleSubmit(text)
  /\ UNCHANGED component

\* clearMessages() that keeps the first entry of the list
clearMessages_keeps_first ==
  /\ messages' = IF messages = << >> THEN << >> ELSE << Head(messages) >>
  /\ IF wsOpen
       THEN /\ SendRoom
            /\ sock' = send(ClearFrame)
       ELSE UNCHANGED sock
  /\ UNCHANGED << connectionState, sessionId, isThinking, error, stats, ws,
                  reconnectAttempts, timers, task >>

\* clearMessages()
clearMessages ==
  /\ messages' = << >>
  /\ IF wsOpen
       THEN /\ SendRoom
            /\ sock' = send(ClearFrame)
       ELSE UNCHANGED sock
  /\ UNCHANGED << connectionState, sessionId, isThinking, error, stats, ws,
                  reconnectAttempts, timers, task >>

\* the user clicks Clear
ClearMessages ==
  /\ task = 0
  /\ clearMessages
  /\ UNCHANGED component

\* cancelMessage() that leaves "thinking" to the cancelled acknowledgment
cancelMessage_awaits_ack ==
  IF wsOpen
    THEN /\ SendRoom
         /\ sock' = send(CancelFrame)
         /\ UNCHANGED << store, ws, reconnectAttempts, timers, task >>
    ELSE UNCHANGED vars

\* cancelMessage()
cancelMessage ==
  IF wsOpen
    THEN /\ SendRoom
         /\ sock' = send(CancelFrame)
         /\ isThinking' = FALSE
         /\ UNCHANGED << connectionState, sessionId, messages, error, stats, ws,
                         reconnectAttempts, timers, task >>
    ELSE UNCHANGED vars

\* a caller invokes cancelMessage()
CancelMessage ==
  /\ task = 0
  /\ cancelMessage
  /\ UNCHANGED component

\* ping() that asks only whether there is a socket, not whether it is open
ping_unchecked ==
  IF ws # NoSocket
    THEN /\ SendRoom
         /\ sock' = send(PingFrame)
         /\ UNCHANGED << store, ws, reconnectAttempts, timers, task >>
    ELSE UNCHANGED vars

\* ping()
ping ==
  IF wsOpen
    THEN /\ SendRoom
         /\ sock' = send(PingFrame)
         /\ UNCHANGED << store, ws, reconnectAttempts, timers, task >>
    ELSE UNCHANGED vars

\* a caller invokes ping()
Ping ==
  /\ task = 0
  /\ ping
  /\ UNCHANGED component

\* The backend reads the next frame the client sent on socket s.  A chat
\* request starts a generation (one at a time per connection); cancel abandons
\* the generation in flight and is acknowledged; clear and ping are answered.
ServerRecv(s) ==
  /\ task = 0
  /\ sock[s].readyState = "OPEN"
  /\ sock[s].outq # << >>
  /\ LET f == Head(sock[s].outq) IN
       CASE f.type = "chat" ->
              /\ ~sock[s].busy
              /\ sock' = [sock EXCEPT ![s].outq = Tail(@), ![s].busy = TRUE]
         [] f.type = "cancel" ->
              /\ Len(sock[s].inq) < MaxInFlight
              /\ sock' = [sock EXCEPT ![s].outq = Tail(@), ![s].busy = FALSE,
                                      ![s].inq = Append(@, CancelledFrame)]
         [] f.type = "clear" ->
              /\ Len(sock[s].inq) < MaxInFlight
              /\ sock' = [sock EXCEPT ![s].outq = Tail(@),
                                      ![s].inq = Append(@, ClearedFrame)]
         [] f.type = "ping" ->
              /\ Len(sock[s].inq) < MaxInFlight
              /\ sock' = [sock EXCEPT ![s].outq = Tail(@),
                                      ![s].inq = Append(@, PongFrame)]
  /\ UNCHANGED << store, ws, reconnectAttempts, timers, task >>
  /\ UNCHANGED component

\* The backend finishes the generation in flight on socket s and pushes its
\* chat_response, or an error frame.
ServerReply(s) ==
  /\ task = 0
  /\ sock[s].readyState = "OPEN"
  /\ sock[s].busy
  /\ Len(sock[s].inq) < MaxInFlight
  /\ \E f \in {ChatResponseFrame, ChatResponseWithTransactions, ErrorFrame} :
       sock' = [sock EXCEPT ![s].busy = FALSE, ![s].inq = Append(@, f)]
  /\ UNCHANGED << store, ws, reconnectAttempts, timers, task >>
  /\ UNCHANGED component

\* Something that is no frame of the protocol arrives on socket s: a frame of
\* an unknown type, text that is not JSON, or a frame of a known type without
\* its payload.
OffProtocol(s) ==
  /\ task = 0
  /\ sock[s].readyState = "OPEN"
  /\ Len(sock[s].inq) < MaxInFlight
  /\ \E f \in {BogusFrame, NotJSON, ConnectedNoPayload, ChatResponseNoPayload} :
       sock' = [sock EXCEPT ![s].inq = Append(@, f)]
  /\ UNCHANGED << store, ws, reconnectAttempts, timers, task >>
  /\ UNCHANGED component

\* what the caller (the views, the user) may do
Caller ==
  \/ Connect
  \/ Disconnect
  \/ HandleSubmit
  \/ ClearMessages
  \/ CancelMessage
  \/ Ping

\* what the browser, the network and the backend do
Environment ==
  \/ TimerFire
  \/ \E s \in Slots : OnOpen(s)
  \/ \E s \in Slots : OnError(s)
  \/ \E s \in Slots : OnClose(s)
  \/ \E s \in Slots : OnMessage(s)
  \/ \E s \in Slots : ServerRecv(s)
  \/ \E s \in Slots : ServerReply(s)
  \/ \E s \in Slots : OffProtocol(s)

\* every submission goes through the Chat view
UINext ==
  \/ Caller
  \/ Environment

Next ==
  \/ UINext
  \/ SendMessage

Spec == Init /\ [][Next]_vars

UISpec == Init /\ [][UINext]_vars

\* What is bound to happen once it can: a timer expires, a connection attempt
\* or a closing handshake ends, the close event follows the error event, a
\* frame on the wire is read.  An open connection need not ever fail, and the
\* caller need not ever act.
Progress ==
  \/ TimerFire
  \/ \E s \in Slots : OnOpen(s)
  \/ \E s \in Slots : sock[s].readyState = "CONNECTING" /\ OnError(s)
  \/ \E s \in Slots : (task = s \/ sock[s].readyState = "CLOSING") /\ OnClose(s)
  \/ \E s \in Slots : OnMessage(s)
  \/ \E s \in Slots : ServerRecv(s)
  \/ \E s \in Slots : ServerReply(s)

FairUISpec == UISpec /\ WF_vars(Progress)

\* ============================================== components/ChatMessage.svelte
\* Texts are strings; a regular expression is modelled by an operator that
\* says where a match starting at a given position ends.  The bullet U+2022
\* of the source's character class [-•] is written "*".

Digit      == {"0", "1", "2", "3", "4", "5", "6", "7", "8", "9"}
AmountChar == Digit \cup {",", "."}
Bullet     == {"-", "*"}
UpperCase  == "ABCDEFGHIJKLMNOPQRSTUVWXYZ"
LowerCase  == "abcdefghijklmnopqrstuvwxyz"

\* s.charAt(i - 1): "" outside the string
charAt(s, i) == IF 1 <= i /\ i <= Len(s) THEN SubSeq(s, i, i) ELSE ""

\* s.substring(i - 1, j), for 1 <= i
substring(s, i, j) ==
  IF j > Len(s) THEN SubSeq(s, i, Len(s)) ELSE SubSeq(s, i, j)

\* the letter c in lower case (any other character is itself)
toLowerCase(c) ==
  IF \E k \in 1 .. 26 : charAt(UpperCase, k) = c
    THEN charAt(LowerCase, CHOOSE k \in 1 .. 26 : charAt(UpperCase, k) = c)
    ELSE c

\* the literal lit stands in s at position i
LitAt(s, i, lit) ==
  /\ i >= 1
  /\ i + Len(lit) - 1 <= Len(s)
  /\ SubSeq(s, i, i + Len(lit) - 1) = lit

\* the same under the flag i
LitAtI(s, i, lit) ==
  /\ i >= 1
  /\ i + Len(lit) - 1 <= Len(s)
  /\ \A k \in 1 .. Len(lit) :
       toLowerCase(charAt(s, i + k - 1)) = toLowerCase(charAt(lit, k))

\* where the longest run of characters of class C that starts at i ends
\* (i - 1: no such character at i)
RunEnd(s, i, C) ==
  IF i > Len(s) THEN i - 1
  ELSE Min({j \in i .. Len(s) + 1 : charAt(s, j) \notin C}) - 1

\* where the line that holds position i ends (the position before its "\n")
LineEnd(s, i) ==
  IF i > Len(s) THEN i - 1
  ELSE Min({j \in i .. Len(s) + 1 : j = Len(s) + 1 \/ charAt(s, j) = "\n"}) - 1

\* ^ under the flag m
LineStart(s, i) == i = 1 \/ charAt(s, i - 1) = "\n"

\* s without the characters of class C
RECURSIVE Without(_, _)
Without(s, C) ==
  IF s = "" THEN ""
  ELSE (IF Head(s) \in C THEN "" ELSE Head(s)) \o Without(Tail(s), C)

\* the value of a digit
DigitValue(c) == CHOOSE n \in 0 .. 9 : charAt("0123456789", n + 1) = c

\* parseInt(str), for a string of digits
RECURSIVE parseInt(_)
parseInt(str) ==
  IF str = "" THEN 0
  ELSE parseInt(SubSeq(str, 1, Len(str) - 1)) * 10 + DigitValue(charAt(str, Len(str)))

\* NaN (no number is negative here)
NaN == 0 - 1

\* parseFloat(str) in hundredths: digits, then a point and digits; what follows
\* is ignored, and a string that starts with neither is NaN
parseFloat(str) ==
  LET intEnd  == RunEnd(str, 1, Digit)
      fracEnd == IF charAt(str, intEnd + 1) = "."
                   THEN RunEnd(str, intEnd + 2, Digit) ELSE intEnd + 1
      whole   == SubSeq(str, 1, intEnd)
      frac    == SubSeq(str, intEnd + 2, fracEnd)
  IN IF whole = "" /\ frac = "" THEN NaN
     ELSE parseInt(whole) * 100 + parseInt(SubSeq(frac \o "00", 1, 2))

\* parseAmount, were the thousands separators left in
parseAmount_keeps_commas(str) == parseFloat(Without(str, {"R"}))

\* parseAmount of extractBudgetInfo
parseAmount(str) == parseFloat(Without(str, {"R", ","}))

\* no match
NoMatch == [from |-> 0, to |-> 0]

\* content.match(/<word> (R[\d,\.]+)/i): where group 1 of the first match
\* starts and ends
AmountAfter(s, word) ==
  LET lit  == word \o " R"
      hits == {i \in 1 .. Len(s) :
                 LitAtI(s, i, lit) /\ charAt(s, i + Len(lit)) \in AmountChar}
  IN IF hits = {} THEN NoMatch
     ELSE [from |-> Min(hits) + Len(lit) - 1,
           to   |-> RunEnd(s, Min(hits) + Len(lit), AmountChar)]

\* content.match(/\((\d+)% used\)/): group 1 of the first match
PercentUsed(s) ==
  LET hits == {i \in 1 .. Len(s) :
                 /\ charAt(s, i) = "("
                 /\ charAt(s, i + 1) \in Digit
                 /\ LitAt(s, RunEnd(s, i + 1, Digit) + 1, "% used)")}
  IN IF hits = {} THEN NoMatch
     ELSE [from |-> Min(hits) + 1, to |-> RunEnd(s, Min(hits) + 1, Digit)]

\* content.match(/(\d+)%/): group 1 of the first match
Percent(s) ==
  LET hits == {i \in 1 .. Len(s) :
                 /\ charAt(s, i) \in Digit
                 /\ charAt(s, RunEnd(s, i, Digit) + 1) = "%"}
  IN IF hits = {} THEN NoMatch
     ELSE [from |-> Min(hits), to |-> RunEnd(s, Min(hits), Digit)]

\* / of (R[\d,\.]+) budget/i at position j: where the amount ends (0: no match)
OfBudgetAt(s, j) ==
  IF /\ LitAtI(s, j, "of R")
     /\ charAt(s, j + 4) \in AmountChar
     /\ LitAtI(s, RunEnd(s, j + 4, AmountChar) + 1, " budget")
    THEN RunEnd(s, j + 4, AmountChar)
    ELSE 0

\* content.match(/spent (R[\d,\.]+).*?of (R[\d,\.]+) budget/i): groups 1 and 2
\* of the first match (.*? takes as little as it can, within one line)
SpentOfBudget(s) ==
  LET tails(i) == {j \in RunEnd(s, i + 7, AmountChar) + 1 ..
                         LineEnd(s, RunEnd(s, i + 7, AmountChar) + 1) :
                      OfBudgetAt(s, j) > 0}
      hits == {i \in 1 .. Len(s) :
                 /\ LitAtI(s, i, "spent R")
                 /\ charAt(s, i + 7) \in AmountChar
                 /\ tails(i) # {}}
  IN IF hits = {} THEN << NoMatch, NoMatch >>
     ELSE << [from |-> Min(hits) + 6, to |-> RunEnd(s, Min(hits) + 7, AmountChar)],
             [from |-> Min(tails(Min(hits))) + 3,
              to   |-> OfBudgetAt(s, Min(tails(Min(hits))))] >>

\* the text of a group
Group(s, m) == SubSeq(s, m.from, m.to)

\* extractBudgetInfo(content)
extractBudgetInfo(content) ==
  IF content = "" THEN NoWidget
  ELSE
    LET budgetMatch     == AmountAfter(content, "budget is")
        spentMatch      == AmountAfter(content, "spent")
        percentMatch    == PercentUsed(content)
        altMatch        == SpentOfBudget(content)
        altPercentMatch == Percent(content)
    IN IF budgetMatch # NoMatch /\ spentMatch # NoMatch /\ percentMatch # NoMatch
         THEN [budget    |-> parseAmount(Group(content, budgetMatch)),
               spent     |-> parseAmount(Group(content, spentMatch)),
               percent   |-> parseInt(Group(content, percentMatch)),
               budgetStr |-> Group(content, budgetMatch),
               spentStr  |-> Group(content, spentMatch)]
       ELSE IF altMatch[1] # NoMatch /\ altPercentMatch # NoMatch
         THEN [budget    |-> parseAmount(Group(content, altMatch[2])),
               spent     |-> parseAmount(Group(content, altMatch[1])),
               percent   |-> parseInt(Group(content, altPercentMatch)),
               budgetStr |-> Group(content, altMatch[2]),
               spentStr  |-> Group(content, altMatch[1])]
       ELSE NoWidget

\* a < b for strings, character by character (months are digits and "-")
RECURSIVE Before(_, _)
Before(a, b) ==
  LET rank(c) == CHOOSE n \in 1 .. 11 : charAt("-0123456789", n) = c IN
  IF b = "" THEN FALSE
  ELSE IF a = "" THEN TRUE
  ELSE IF Head(a) = Head(b) THEN Before(Tail(a), Tail(b))
  ELSE rank(Head(a)) < rank(Head(b))

\* a + b for numbers that may be NaN
Plus(a, b) == IF a = NaN \/ b = NaN THEN NaN ELSE a + b

\* the same, were the amount put in place of the month's total
AddToMonth_overwrite(byMonth, month, amount) ==
  IF \E k \in DOMAIN byMonth : byMonth[k].month = month
    THEN [k \in DOMAIN byMonth |->
            IF byMonth[k].month = month
              THEN [month |-> month, total |-> amount]
              ELSE byMonth[k]]
    ELSE Append(byMonth, [month |-> month, total |-> Plus(0, amount)])

\* byMonth[month] = (byMonth[month] || 0) + amount; the object's entries are
\* kept in the order in which their keys were added
AddToMonth(byMonth, month, amount) ==
  IF \E k \in DOMAIN byMonth : byMonth[k].month = month
    THEN [k \in DOMAIN byMonth |->
            IF byMonth[k].month = month
              THEN [month |-> month, total |-> Plus(byMonth[k].total, amount)]
              ELSE byMonth[k]]
    ELSE Append(byMonth, [month |-> month, total |-> Plus(0, amount)])

\* debits.forEach(tx => ...): the totals by month of the first n debits
RECURSIVE ByMonth(_, _)
ByMonth(debits, n) ==
  IF n = 0 THEN << >>
  ELSE LET tx == debits[n] IN
       IF "date" \in DOMAIN tx /\ tx.date # ""
         THEN AddToMonth(ByMonth(debits, n - 1), substring(tx.date, 1, 7),
                         IF "amount" \in DOMAIN tx /\ tx.amount # ""
                           THEN parseFloat(tx.amount) ELSE 0)
         ELSE ByMonth(debits, n - 1)

\* entry e put into a list that is sorted by (b, a) => b.month.localeCompare(a.month),
\* after the entries that do not sort after it
RECURSIVE Insert(_, _)
Insert(sorted, e) ==
  IF sorted = << >> THEN << e >>
  ELSE IF Before(Head(sorted).month, e.month)
    THEN << e >> \o sorted
    ELSE << Head(sorted) >> \o Insert(Tail(sorted), e)

\* entries.sort(...): newest month first
RECURSIVE SortNewestFirst(_, _)
SortNewestFirst(entries, n) ==
  IF n = 0 THEN << >>
  ELSE Insert(SortNewestFirst(entries, n - 1), entries[n])

\* Math.max(...totals)
Max(S) == CHOOSE x \in S : \A y \in S : y <= x

\* getSpendingChartData(transactions)
getSpendingChartData(transactions) ==
  IF Len(transactions) < 3 THEN NoWidget
  ELSE
    LET debits == SelectSeq(transactions,
                    LAMBDA tx : /\ tx.transaction_type = "debit"
                                /\ ~("category" \in DOMAIN tx /\ tx.category = "fees"))
    IN IF Len(debits) < 3 THEN NoWidget
       ELSE
         LET byMonth == ByMonth(debits, Len(debits))
             sorted  == SortNewestFirst(byMonth, Len(byMonth))
             months  == SubSeq(sorted, 1, IF Len(sorted) < 12 THEN Len(sorted) ELSE 12)
         IN IF Len(months) < 2 THEN NoWidget
            ELSE [months |-> months,
                  maxAmount |-> Max({months[k].total : k \in DOMAIN months})]

\* the budget progress bar of the markup: the class of the bar
barClass(percent) ==
  IF percent >= 100 THEN "bg-red-500"
  ELSE IF percent >= 80 THEN "bg-yellow-500"
  ELSE "bg-green-500"

\* the width of the bar, in percent: Math.min(budgetInfo.percent, 100)
barWidth(percent) == IF percent < 100 THEN percent ELSE 100

\* the class of the "N% used" label under the bar
labelClass(percent) ==
  IF percent >= 100 THEN "text-red-500"
  ELSE IF percent >= 80 THEN "text-yellow-600 dark:text-yellow-400"
  ELSE "text-green-500"

\* the label under the bar: {budgetInfo.percent}% used
label(percent) == ToString(percent) \o "% used"

\* ---- regular expressions that are a sequence of elements, each of which
\* takes as much as it can and never has to give anything back
L(lit)        == [kind |-> "lit",     lit |-> << lit >>, class |-> {}, n |-> 0]
OneOf(a, b)   == [kind |-> "lit",     lit |-> << a, b >>, class |-> {}, n |-> 0]
Some(C)       == [kind |-> "some",    lit |-> << >>, class |-> C,  n |-> 0]
Star(C)        == [kind |-> "any",     lit |-> << >>, class |-> C,  n |-> 0]
Opt(C)        == [kind |-> "opt",     lit |-> << >>, class |-> C,  n |-> 0]
Exactly(C, n) == [kind |-> "exactly", lit |-> << >>, class |-> C,  n |-> n]
Bol           == [kind |-> "bol",     lit |-> << >>, class |-> {}, n |-> 0]
Eol           == [kind |-> "eol",     lit |-> << >>, class |-> {}, n |-> 0]
Rest          == [kind |-> "rest",    lit |-> << >>, class |-> {}, n |-> 0]

\* no position
Fail == 0 - 1

\* where element el, matched at position i of s, ends (i - 1 when it matches
\* the empty string, Fail when it does not match)
ElementEnd(s, i, el) ==
  CASE el.kind = "lit" ->
         IF \E k \in DOMAIN el.lit : LitAt(s, i, el.lit[k])
           THEN i - 1 + Len(el.lit[CHOOSE k \in DOMAIN el.lit : LitAt(s, i, el.lit[k])])
           ELSE Fail
    [] el.kind = "some" ->
         IF charAt(s, i) \in el.class THEN RunEnd(s, i, el.class) ELSE Fail
    [] el.kind = "any" -> RunEnd(s, i, el.class)
    [] el.kind = "opt" -> IF charAt(s, i) \in el.class THEN i ELSE i - 1
    [] el.kind = "exactly" ->
         IF \A k \in 0 .. el.n - 1 : charAt(s, i + k) \in el.class
           THEN i + el.n - 1 ELSE Fail
    [] el.kind = "bol" -> IF LineStart(s, i) THEN i - 1 ELSE Fail
    [] el.kind = "eol" ->
         IF i = Len(s) + 1 \/ charAt(s, i) = "\n" THEN i - 1 ELSE Fail
    [] el.kind = "rest" -> LineEnd(s, i)

\* where each element of the pattern ends when the pattern is matched at
\* position i of s; << >> when it does not match there
RECURSIVE Scan(_, _, _)
Scan(s, i, pattern) ==
  LET e == ElementEnd(s, i, Head(pattern)) IN
  IF e = Fail THEN << >>
  ELSE IF Len(pattern) = 1 THEN << e >>
  ELSE LET rest == Scan(s, e + 1, Tail(pattern)) IN
       IF rest = << >> THEN << >> ELSE << e >> \o rest

\* the text element k of the pattern matched
Part(s, i, ends, k) == SubSeq(s, IF k = 1 THEN i ELSE ends[k - 1] + 1, ends[k])

\* a date: \d{4}-\d{2}-\d{2}
Date == << Exactly(Digit, 4), L("-"), Exactly(Digit, 2), L("-"), Exactly(Digit, 2) >>

\* the patterns of formatContent, in the order of the source
OverBudget  == << L("OVER BUDGET") >>
PercentUsedSpan == << Some(Digit), L("% used") >>
Remaining   == << L("R"), Some(AmountChar), Some(WhiteSpace), L("remaining") >>
ByAmount    == << L("by "), L("R"), Some(AmountChar) >>
TotalsBanner ==
  << L("&gt;&gt;&gt; "), Some(Digit), L(" PAYMENTS TOTALING: "), L("R"),
     Some(AmountChar), L(" | "), Some(Digit), L(" DEPOSITS TOTALING: "), L("R"),
     Some(AmountChar), L(" &lt;&lt;&lt;") >>
OverallBanner ==
  << L("&gt;&gt;&gt; OVERALL BUDGET TOTAL: "), L("R"), Some(AmountChar),
     L(" budgeted, "), L("R"), Some(AmountChar), L(" spent, "), L("R"),
     Opt({"-"}), Some(AmountChar), L(" remaining &lt;&lt;&lt;") >>
OpenMarker  == << L("&gt;&gt;&gt;") >>
CloseMarker == << L("&lt;&lt;&lt;") >>
LeakedPayments ==
  << Bol, Star(WhiteSpace), Star(Digit), Star(WhiteSpace), L("PAYMENTS TOTALING:"),
     Rest, Eol >>
LeakedDeposits ==
  << Bol, Star(WhiteSpace), Star(Digit), Star(WhiteSpace), L("DEPOSITS TOTALING:"),
     Rest, Eol >>
LeakedTemplate ==
  << Bol, Star(WhiteSpace), Exactly({"X", "Y"}, 1), Some(WhiteSpace),
     L("PAYMENTS TOTALING:"), Rest, Eol >>

\* the color of "N% used" inside the text, were 100 itself not yet over
usedClass_above_100(percent) ==
  IF percent > 100 THEN "text-red-500"
  ELSE IF percent >= 80 THEN "text-yellow-500"
  ELSE "text-green-500"

\* the color of "N% used" inside the text
usedClass(percent) ==
  IF percent >= 100 THEN "text-red-500"
  ELSE IF percent >= 80 THEN "text-yellow-500"
  ELSE "text-green-500"

BannerOpen == "<div class=\"mt-2 pt-2 border-t border-gray-200 dark:border-gray-600 font-medium\">"

\* what replaces the match of the pattern at position i of s (the middle dot
\* of the banners is written &middot;)
Replacement(pattern, s, i, ends) ==
  LET g(k) == Part(s, i, ends, k) IN
  CASE pattern = OverBudget ->
         "<span class=\"text-red-500 font-semibold\">OVER BUDGET</span>"
    [] pattern = PercentUsedSpan ->
         "<span class=\"" \o usedClass(parseInt(g(1))) \o "\">" \o g(1) \o "% used</span>"
    [] pattern = Remaining ->
         "<span class=\"text-green-500\">" \o g(1) \o g(2) \o " remaining</span>"
    [] pattern = ByAmount ->
         "by <span class=\"text-red-500 font-semibold\">" \o g(2) \o g(3) \o "</span>"
    [] pattern = TotalsBanner ->
         BannerOpen \o "<span class=\"text-red-500\">" \o g(2) \o " payments: "
           \o g(4) \o g(5) \o "</span> &middot; <span class=\"text-green-500\">"
           \o g(7) \o " deposits: " \o g(9) \o g(10) \o "</span></div>"
    [] pattern = OverallBanner ->
         BannerOpen \o "Budget: " \o g(2) \o g(3)
           \o " &middot; <span class=\"text-red-500\">Spent: " \o g(5) \o g(6)
           \o "</span> &middot; <span class=\"text-green-500\">Remaining: "
           \o g(8) \o g(9) \o g(10) \o "</span></div>"
    [] OTHER -> ""

\* s.replace(/pattern/g, ...), from position i on
RECURSIVE replace(_, _, _)
replace(s, i, pattern) ==
  LET found == {j \in i .. Len(s) : Scan(s, j, pattern) # << >>} IN
  IF found = {} THEN SubSeq(s, i, Len(s))
  ELSE LET j    == Min(found)
           ends == Scan(s, j, pattern)
       IN SubSeq(s, i, j - 1) \o Replacement(pattern, s, j, ends)
            \o replace(s, ends[Len(ends)] + 1, pattern)

\* the first step of formatContent: & < > are escaped, in this order
RECURSIVE replaceChar(_, _, _)
replaceChar(s, c, by) ==
  LET found == {j \in 1 .. Len(s) : charAt(s, j) = c} IN
  IF found = {} THEN s
  ELSE SubSeq(s, 1, Min(found) - 1) \o by
         \o replaceChar(SubSeq(s, Min(found) + 1, Len(s)), c, by)

escape(content) ==
  replaceChar(replaceChar(replaceChar(content, "&", "&amp;"), "<", "&lt;"), ">", "&gt;")

\* (date): (R[\d,\.]+) (debit|credit), after an optional bullet and blanks
Typed ==
  << Opt(Bullet), Star(WhiteSpace) >> \o Date
    \o << L(": "), L("R"), Some(AmountChar), L(" "), OneOf("debit", "credit") >>

\* no typed line
NoLine == [ends |-> << >>, end |-> Fail, category |-> FALSE]

\* The typed transaction line /^([-•]?\s*)(date): (amount) (debit|credit)(?: \((.+?)\))?$/
\* at position i of s: where its elements end and where the line ends, with
\* category = TRUE when the line goes on with " (", at least one character and
\* ")" as its last character.
TypedLine(s, i) ==
  LET ends == Scan(s, i, Typed)
      e    == ends[Len(ends)]
      end  == LineEnd(s, e + 1)
  IN IF ends = << >> THEN NoLine
     ELSE IF LitAt(s, e + 1, " (") /\ end >= e + 4 /\ charAt(s, end) = ")"
       THEN [ends |-> ends, end |-> end, category |-> TRUE]
     ELSE IF end = e
       THEN [ends |-> ends, end |-> end, category |-> FALSE]
     ELSE NoLine

\* the date, amount, type and category of a typed line
TypedDate(s, i, t)     == SubSeq(s, t.ends[2] + 1, t.ends[7])
TypedAmount(s, i, t)   == SubSeq(s, t.ends[8] + 1, t.ends[10])
TypedIsCredit(s, i, t) == SubSeq(s, t.ends[11] + 1, t.ends[12]) = "credit"
TypedCategory(s, i, t) ==
  IF t.category THEN SubSeq(s, t.ends[12] + 3, t.end - 1) ELSE ""

CreditClass == "text-green-500 dark:text-green-400"
DebitClass  == "text-red-500 dark:text-red-400"

\* the rendering of a standalone transaction line
TransactionDiv(s, i, t) ==
  "<div class=\"flex justify-between items-center py-1 border-b border-gray-100 dark:border-gray-700\"><span class=\"text-gray-500 text-sm\">"
    \o TypedDate(s, i, t)
    \o (IF TypedCategory(s, i, t) # ""
          THEN " <span class=\"text-gray-400 text-xs\">" \o TypedCategory(s, i, t) \o "</span>"
          ELSE "")
    \o "</span><span class=\""
    \o (IF TypedIsCredit(s, i, t) THEN CreditClass ELSE DebitClass)
    \o " font-medium\">"
    \o (IF TypedIsCredit(s, i, t) THEN "+" ELSE "-")
    \o TypedAmount(s, i, t)
    \o "</span></div>"

\* formatted.replace of the standalone transaction lines (flags g, m), from
\* position i on
RECURSIVE replaceTransactionLines(_, _)
replaceTransactionLines(s, i) ==
  LET found == {j \in i .. Len(s) : LineStart(s, j) /\ TypedLine(s, j) # NoLine} IN
  IF found = {} THEN SubSeq(s, i, Len(s))
  ELSE LET j == Min(found)
           t == TypedLine(s, j)
       IN SubSeq(s, i, j - 1) \o TransactionDiv(s, j, t)
            \o replaceTransactionLines(s, t.end + 1)

\* s.includes(lit)
includes(s, lit) == \E i \in 1 .. Len(s) : LitAt(s, i, lit)

\* the same, were the pattern anchored to the start of the line
HasAmount_at_start(line) ==
  charAt(line, 1) = "R" /\ charAt(line, 2) \in AmountChar

\* line.match(/R[\d,\.]+/)
HasAmount(line) ==
  \E i \in 1 .. Len(line) : charAt(line, i) = "R" /\ charAt(line, i + 1) \in AmountChar

\* where (R[\d,\.]+)$ may start in line: "R" and then nothing but amount
\* characters, at least one, up to the end of the line
AmountToEnd(line, i) ==
  /\ charAt(line, i) = "R"
  /\ charAt(line, i + 1) \in AmountChar
  /\ RunEnd(line, i + 1, AmountChar) = Len(line)

\* (.+?)<sep>(R[\d,\.]+)$ with the description starting at position d: where
\* the shortest description ends (Fail: no match)
DescEnd(line, d, sep) ==
  LET qs == {q \in d + 1 .. Len(line) :
               LitAt(line, q, sep) /\ AmountToEnd(line, q + Len(sep))}
  IN IF d >= 1 /\ qs # {} THEN Min(qs) - 1 ELSE Fail

\* the prefixes of the row patterns
BulletDate == << Exactly(Bullet, 1), L(" ") >> \o Date \o << L(": ") >>
MonthOnly  == << Exactly(Digit, 4), L("-"), Exactly(Digit, 2), L(": ") >>
FullDate   == Date \o << L(": ") >>
AmountDate ==
  << Exactly(Bullet, 1), L(" "), L("R"), Some(AmountChar), L(" (") >> \o Date
    \o << L(")"), Eol >>

\* where the last element of the prefix ends in line (Fail: no match)
PrefixEnd(line, prefix) ==
  LET ends == Scan(line, 1, prefix) IN
  IF ends = << >> THEN Fail ELSE ends[Len(ends)]

\* /^(date)\s+(.+?)\s+(-?R[\d,\.]+)$/: << where the first \s+ ends, where the
\* description ends >>; the first \s+ takes as much as it can, the description
\* as little as it can (<< >>: no match)
TabSplit(line) ==
  LET a == PrefixEnd(line, Date)
      amountAt(p) == AmountToEnd(line, IF charAt(line, p) = "-" THEN p + 1 ELSE p)
      tail(f) == /\ charAt(line, f + 1) \in WhiteSpace
                 /\ amountAt(RunEnd(line, f + 1, WhiteSpace) + 1)
      splits == {kf \in (a + 1 .. Len(line)) \X (a + 2 .. Len(line)) :
                   /\ \A j \in a + 1 .. kf[1] : charAt(line, j) \in WhiteSpace
                   /\ kf[2] > kf[1]
                   /\ tail(kf[2])}
      k == Max({kf[1] : kf \in splits})
      f == Min({kf[2] : kf \in {x \in splits : x[1] = k}})
  IN IF a = Fail \/ splits = {} THEN << >> ELSE << k, f >>

TR     == "<tr class=\"border-b border-gray-100 dark:border-gray-700\">"
TDDate == "<td class=\"py-2 pr-3 text-gray-500 text-xs\">"
TDText == "<td class=\"py-2 pr-3\">"
TDAmount(cls) == "<td class=\"py-2 text-right " \o cls \o " font-medium\">"

\* a row of three cells: date, text, amount
Row(date, text, cls, amount) ==
  TR \o TDDate \o date \o "</td>" \o TDText \o text \o "</td>"
     \o TDAmount(cls) \o amount \o "</td></tr>"

\* line.replace(/^[-•] /, '')
WithoutBullet(line) ==
  IF charAt(line, 1) \in Bullet /\ charAt(line, 2) = " "
    THEN SubSeq(line, 3, Len(line)) ELSE line

\* the row of one line of a list block: lines.map(line => ...)
RowOf(line, amtClass, amtPrefix) ==
  LET typedMatch  == TypedLine(line, 1)
      bulletDate  == PrefixEnd(line, BulletDate)
      tabMatch    == TabSplit(line)
      monthOnly   == PrefixEnd(line, MonthOnly)
      fullDate    == PrefixEnd(line, FullDate)
      pipeEnd     == DescEnd(line, 1, " | ")
      amountDate  == Scan(line, 1, AmountDate)
      end         == Len(line)
  IN
  IF includes(line, "no previous transactions") \/ includes(line, "no transactions")
    THEN ""
  ELSE IF typedMatch # NoLine
    THEN Row(TypedDate(line, 1, typedMatch), TypedCategory(line, 1, typedMatch),
             IF TypedIsCredit(line, 1, typedMatch) THEN CreditClass ELSE DebitClass,
             (IF TypedIsCredit(line, 1, typedMatch) THEN "+" ELSE "-")
               \o TypedAmount(line, 1, typedMatch))
  ELSE IF bulletDate # Fail /\ DescEnd(line, bulletDate + 1, " - ") # Fail
    THEN Row(SubSeq(line, 3, 12),
             SubSeq(line, bulletDate + 1, DescEnd(line, bulletDate + 1, " - ")),
             amtClass,
             amtPrefix \o SubSeq(line, DescEnd(line, bulletDate + 1, " - ") + 4, end))
  ELSE IF tabMatch # << >>
    THEN Row(SubSeq(line, 1, 10),
             SubSeq(line, tabMatch[1] + 1, tabMatch[2]),
             amtClass,
             amtPrefix \o Without(SubSeq(line, RunEnd(line, tabMatch[2] + 1, WhiteSpace) + 1, end),
                                  {"-"}))
  ELSE IF monthOnly # Fail /\ DescEnd(line, monthOnly + 1, " - ") # Fail
    THEN Row(SubSeq(line, 1, 7),
             SubSeq(line, monthOnly + 1, DescEnd(line, monthOnly + 1, " - ")),
             amtClass,
             amtPrefix \o SubSeq(line, DescEnd(line, monthOnly + 1, " - ") + 4, end))
  ELSE IF fullDate # Fail /\ DescEnd(line, fullDate + 1, " - ") # Fail
    THEN Row(SubSeq(line, 1, 10),
             SubSeq(line, fullDate + 1, DescEnd(line, fullDate + 1, " - ")),
             amtClass,
             amtPrefix \o SubSeq(line, DescEnd(line, fullDate + 1, " - ") + 4, end))
  ELSE IF pipeEnd # Fail
    THEN TR \o TDText \o SubSeq(line, 1, pipeEnd) \o "</td>"
            \o TDAmount(amtClass) \o amtPrefix \o SubSeq(line, pipeEnd + 4, end)
            \o "</td></tr>"
  ELSE IF amountDate # << >>
    THEN TR \o TDDate \o SubSeq(line, amountDate[5] + 1, amountDate[10]) \o "</td>"
            \o TDAmount(amtClass) \o amtPrefix
            \o SubSeq(line, amountDate[2] + 1, amountDate[4]) \o "</td></tr>"
  ELSE IF HasAmount(line)
    THEN TR \o "<td class=\"py-2\" colspan=\"3\">" \o WithoutBullet(line) \o "</td></tr>"
  ELSE ""

CapitalLetter == {charAt(UpperCase, k) : k \in 1 .. 26}

\* One line of the list of a list block, matched at position p of s: where it
\* ends, before the optional "\n" (Fail: none of the three alternatives
\* matches).
\*   [-•] .+      |      [A-Z].+\| R[\d,\.]+      |      \d{4}-\d{2}(?:-\d{2})?: .+
ListLineEnd(s, p) ==
  LET end   == LineEnd(s, p)
      pipes == {q \in p + 2 .. end :
                  LitAt(s, q, "| R") /\ charAt(s, q + 3) \in AmountChar}
      month == Scan(s, p, << Exactly(Digit, 4), L("-"), Exactly(Digit, 2) >>)
      day   == Scan(s, p + 7, << L("-"), Exactly(Digit, 2), L(": ") >>)
  IN IF charAt(s, p) \in Bullet
       THEN IF charAt(s, p + 1) = " " /\ end >= p + 2 THEN end ELSE Fail
     ELSE IF charAt(s, p) \in CapitalLetter
       THEN IF pipes # {} THEN RunEnd(s, Max(pipes) + 3, AmountChar) ELSE Fail
     ELSE IF month # << >>
       THEN IF day # << >> /\ end >= p + 12 THEN end
            ELSE IF LitAt(s, p + 7, ": ") /\ end >= p + 9 THEN end
            ELSE Fail
     ELSE Fail

\* where the list that starts at position p ends: the lines that match, one
\* after the other, each with the "\n" after it if there is one (p - 1: no
\* line matches at p)
RECURSIVE ListEnd(_, _)
ListEnd(s, p) ==
  LET e == ListLineEnd(s, p) IN
  IF p > Len(s) \/ e = Fail THEN p - 1
  ELSE IF charAt(s, e + 1) = "\n" THEN ListEnd(s, e + 2)
  ELSE ListEnd(s, e + 1)

\* The list block /^(.*?:)\n((?:...)+)/ at position i of s: where the header
\* ends and where the list ends (<< >>: no list block starts at i).
ListBlock(s, i) ==
  LET h == LineEnd(s, i) IN
  IF /\ LineStart(s, i)
     /\ h >= i
     /\ charAt(s, h) = ":"
     /\ charAt(s, h + 1) = "\n"
     /\ ListEnd(s, h + 2) >= h + 2
    THEN << h, ListEnd(s, h + 2) >>
    ELSE << >>

\* text.split('\n')
RECURSIVE split(_)
split(text) ==
  IF LineEnd(text, 1) >= Len(text) THEN << text >>
  ELSE << SubSeq(text, 1, LineEnd(text, 1)) >>
         \o split(SubSeq(text, LineEnd(text, 1) + 2, Len(text)))

\* rows.join('')
RECURSIVE join(_)
join(rows) == IF rows = << >> THEN "" ELSE Head(rows) \o join(Tail(rows))

\* the same, were the header tested without the flag i
Table_case_sensitive(header, list) ==
  LET lines     == SelectSeq(split(trim(list)), LAMBDA l : trim(l) # "")
      isDeposit == \/ includes(header, "received")
                   \/ includes(header, "deposit")
                   \/ includes(header, "credit")
      amtClass  == IF isDeposit THEN CreditClass ELSE DebitClass
      amtPrefix == IF isDeposit THEN "+" ELSE "-"
      rows      == [k \in DOMAIN lines |-> RowOf(lines[k], amtClass, amtPrefix)]
  IN IF Len(lines) = 0 THEN header \o "\n" \o list
     ELSE header \o "<table class=\"mt-3 text-sm w-full\"><tbody>"
            \o join(rows) \o "</tbody></table>"

\* the callback of the list block replacement
Table(header, list) ==
  LET lines     == SelectSeq(split(trim(list)), LAMBDA l : trim(l) # "")
      isDeposit == \/ \E i \in 1 .. Len(header) : LitAtI(header, i, "received")
                   \/ \E i \in 1 .. Len(header) : LitAtI(header, i, "deposit")
                   \/ \E i \in 1 .. Len(header) : LitAtI(header, i, "credit")
      amtClass  == IF isDeposit THEN CreditClass ELSE DebitClass
      amtPrefix == IF isDeposit THEN "+" ELSE "-"
      rows      == [k \in DOMAIN lines |-> RowOf(lines[k], amtClass, amtPrefix)]
  IN IF Len(lines) = 0 THEN header \o "\n" \o list
     ELSE header \o "<table class=\"mt-3 text-sm w-full\"><tbody>"
            \o join(rows) \o "</tbody></table>"

\* formatted.replace(listPattern, ...), from position i on
RECURSIVE replaceListBlocks(_, _)
replaceListBlocks(s, i) ==
  LET found == {j \in i .. Len(s) : ListBlock(s, j) # << >>} IN
  IF found = {} THEN SubSeq(s, i, Len(s))
  ELSE LET j     == Min(found)
           block == ListBlock(s, j)
       IN SubSeq(s, i, j - 1)
            \o Table(SubSeq(s, j, block[1]), SubSeq(s, block[1] + 2, block[2]))
            \o replaceListBlocks(s, block[2] + 1)

\* formatContent(content)
formatContent(content) ==
  IF content = "" THEN ""
  ELSE
    LET escaped       == escape(content)
        overBudget    == replace(escaped, 1, OverBudget)
        percentUsed   == replace(overBudget, 1, PercentUsedSpan)
        remaining     == replace(percentUsed, 1, Remaining)
        byAmount      == replace(remaining, 1, ByAmount)
        totals        == replace(byAmount, 1, TotalsBanner)
        overall       == replace(totals, 1, OverallBanner)
        noOpenMarker  == replace(overall, 1, OpenMarker)
        noCloseMarker == replace(noOpenMarker, 1, CloseMarker)
        noPayments    == replace(noCloseMarker, 1, LeakedPayments)
        noDeposits    == replace(noPayments, 1, LeakedDeposits)
        noTemplate    == replace(noDeposits, 1, LeakedTemplate)
        transactions  == replaceTransactionLines(noTemplate, 1)
    IN replaceListBlocks(transactions, 1)

\* ---- the component is created for one message of the list: the markup
\* shows the prop and the values the reactive statements compute from it
Show(m, info, chart, html) ==
  /\ message = NoMessage
  /\ message' = m
  /\ budgetInfo' = info
  /\ spendingChart' = chart
  /\ formattedContent' = html
  /\ UNCHANGED session

\* $: budgetInfo, $: spendingChart, $: formattedContent
Mount(m) ==
  Show(m,
       extractBudgetInfo(m.content),
       getSpendingChartData(OrElse(m, "transactions", << >>)),
       formatContent(m.content))

\* ---- the messages the component is created for
\* the stored form of the reply with this text and these transactions
Reply(text, transactions) ==
  AssistantMessage([type |-> "chat_response",
                    payload |-> [message |-> text, transactions |-> transactions,
                                 timestamp |-> "t1"]])

\* a reply that states the budget, what was spent and the percentage used
BudgetText(percent) ==
  "Your budget is R8,000.00 and you've spent R8,480.00 (" \o ToString(percent) \o "% used)"

\* sentences a reply is made of
Fragments ==
  { "Your budget is R8,000.00. ",
    "You've spent R8,480.00 ",
    "(106% used) ",
    "You've spent R1,500.50 of R2,000.00 budget, ",
    "that is 75% ",
    "Thanks for your question. ",
    "Tips:\n- Save more\n",
    "a < b & c > d " }

\* the sequences of at most n elements of S
SeqsUpTo(S, n) == UNION {[1 .. k -> S] : k \in 0 .. n}

Replies == {join(f) : f \in SeqsUpTo(Fragments, MaxFragments)}

\* transactions as the backend sends them
Tx(date, amount, type, category) ==
  [date |-> date, amount |-> amount, transaction_type |-> type,
   category |-> category, description |-> "Shop"]

Transactions ==
  { Tx("2025-09-05", "45.00", "debit", "groceries"),
    Tx("2025-09-06", "320.50", "debit", "dining"),
    Tx("2025-10-01", "100.00", "debit", "fuel"),
    Tx("2025-10-02", "5.50", "debit", "fees"),
    Tx("2025-11-25", "9000.00", "credit", "salary"),
    Tx("2025-08-30", "12.25", "debit", "other") }

Statements == SeqsUpTo(Transactions, MaxTransactions)

\* the k-th month from 2024-01 on, as YYYY-MM
MonthFrom2024(k) ==
  LET year  == 2024 + (k - 1) \div 12
      month == ((k - 1) % 12) + 1
  IN ToString(year) \o "-" \o (IF month < 10 THEN "0" ELSE "") \o ToString(month)

\* one purchase of R k on the 15th of each of n months in a row
History(n) ==
  [k \in 1 .. n |-> Tx(MonthFrom2024(k) \o "-15", ToString(k) \o ".00", "debit", "groceries")]

\* ---- replies that hold a list: a header line and the lines under it
HeaderLines == {"Recent purchases:", "Deposits received:", "CREDIT notes:"}

ListLines ==
  { "- 2025-09-05: Coffee Shop - R45.00",
    "- 2025-09-06: Groceries - R320.50",
    "2025-04: Bank fee - R2.50",
    "2025-04-01: Card fee - R3.50",
    "Fuel | R1,000.00",
    "- R1,200.00 (2025-11-03)",
    "2025-09-05: R45.00 debit",
    "2025-09-06: R320.50 credit (salary)",
    "- 2025-09-07: R1,381.00 debit (payment)",
    "- about R5 in cash",
    "- nothing here",
    "- no transactions above R500.00" }

\* the lines, one per line of the text
RECURSIVE LinesText(_)
LinesText(lines) ==
  IF Len(lines) = 1 THEN lines[1]
  ELSE lines[1] \o "\n" \o LinesText(Tail(lines))

ListText(header, lines) == header \o "\n" \o LinesText(lines)

ListReplies ==
  {[header |-> header, lines |-> lines, text |-> ListText(header, lines)] :
     header \in HeaderLines, lines \in SeqsUpTo(ListLines, MaxLines) \ {<< >>}}

\* ---- replies made of the characters of the banner markers
Pieces == {">>", "<<<", ">", ">>> ", "<<< saved "}

MarkerTexts == {join(f) : f \in SeqsUpTo(Pieces, MaxPieces)} \ {""}

\* ---- replies that name an amount after "by", and the two banners
PhraseTexts ==
  { "You are OVER BUDGET by R480.00 this month.",
    "You went over budget by R480.00 (106% used).",
    "Reduce spending by R500.00 and you are over budget by R20.50 only.",
    "Paid by R3,000.00 transfer, R20.50 remaining.",
    ">>> 3 PAYMENTS TOTALING: R1,200.00 | 2 DEPOSITS TOTALING: R9,000.00 <<<",
    ">>> OVERALL BUDGET TOTAL: R8,000.00 budgeted, R8,480.00 spent, R-480.00 remaining <<<",
    ">>> 3 PAYMENTS TOTALING: about R1,200.00 <<<" }

\* the messages the component is created for
Messages ==
  {Reply(BudgetText(percent), << >>) : percent \in 0 .. MaxPercent}
    \cup {Reply(text, << >>) : text \in Replies}
    \cup {Reply(reply.text, << >>) : reply \in ListReplies}
    \cup {Reply(text, << >>) : text \in MarkerTexts \cup PhraseTexts}
    \cup {Reply("Here are your transactions.", transactions) : transactions \in Statements}
    \cup {Reply("Here is your history.", History(n)) : n \in 1 .. MaxMonths}

ViewNext == \E m \in Messages : Mount(m)

ViewSpec == Init /\ [][ViewNext]_vars

\* ================================================================ claims

\* C1: disconnect() leaves ConnectionState = Disconnected and SessionIdentity
\* = none and cancels every reconnect timer that was pending when it was
\* called, so that none can fire connect() afterwards.
C1_DisconnectCancelsTimers ==
  [][Disconnect => /\ connectionState' = DISCONNECTED
                   /\ sessionId' = NoSession
                   /\ timers' = EmptyBag]_vars

\* C2: the transport-close event of a socket that disconnect() closed
\* schedules no reconnect timer.
C2_NoReconnectAfterDisconnect ==
  [][\A s \in Slots :
       (sock[s].readyState = "CLOSING" /\ OnClose(s)) => timers' = timers]_vars

\* C3: a transport-close with the attempt counter below 5 increments the
\* counter and schedules exactly one reconnect, with delay 2000 ms times the
\* new counter value, so the pending delays are among 2000, 4000, 6000, 8000
\* and 10000 ms; a transport-open resets the counter to 0.
C3_LinearBackoff ==
  [][/\ \A s \in Slots :
          (OnClose(s) /\ reconnectAttempts < 5) =>
             /\ reconnectAttempts' = reconnectAttempts + 1
             /\ timers' = timers (+) SetToBag({2000 * reconnectAttempts'})
     /\ \A s \in Slots : OnOpen(s) => reconnectAttempts' = 0
     /\ reconnectAttempts' \in 0 .. 5
     /\ BagToSet(timers') \subseteq {2000, 4000, 6000, 8000, 10000}]_vars

\* C3 witness: the fifth consecutive close has scheduled the reconnect at
\* 10000 ms.
C3_Witness ==
  /\ reconnectAttempts = 5
  /\ timers = SetToBag({10000})

\* the retry ceiling is reached and nothing is pending
AtCeiling ==
  /\ reconnectAttempts = MAX_RECONNECT_ATTEMPTS
  /\ connectionState = DISCONNECTED
  /\ timers = EmptyBag

\* C4: a transport-close at the ceiling (counter = 5) schedules no reconnect
\* and leaves ConnectionState = Disconnected with no timer pending, and from
\* then on every step other than a connect() by the caller keeps
\* ConnectionState = Disconnected and no timer pending.
C4_CeilingIsTerminal ==
  [][/\ \A s \in Slots :
          (OnClose(s) /\ reconnectAttempts = MAX_RECONNECT_ATTEMPTS) =>
             /\ timers' = timers
             /\ AtCeiling'
     /\ (AtCeiling /\ ~Connect) =>
          /\ connectionState' = DISCONNECTED
          /\ timers' = EmptyBag]_vars

\* C5: at most one transport is live (connecting or open) at a time.
C5_OneLiveTransport == Cardinality(Live) <= 1

\* C6: at most one reconnect timer is pending.
C6_OnePendingTimer == BagCardinality(timers) <= 1

\* C7: with every submission going through handleSubmit, at most one chat
\* request is outstanding at any time.
C7_SingleInFlight == Outstanding <= 1

\* C8: cancelMessage() on an open transport sends one cancel frame and clears
\* "thinking" at once; no incoming frame ever sets "thinking"; a chat_response
\* (a frame with its payload), however late, is appended as an assistant
\* message and leaves "thinking" false.
C8_CancelIsOptimistic ==
  [][/\ (CancelMessage /\ wsOpen) =>
          /\ ~isThinking'
          /\ sock'[ws].outq = Append(sock[ws].outq, [type |-> "cancel"])
          /\ sock'[ws].inq = sock[ws].inq
          /\ messages' = messages
     /\ \A s \in Slots : OnMessage(s) => (isThinking' => isThinking)
     /\ \A s \in Slots :
          (/\ OnMessage(s)
           /\ typeOf(Head(sock[s].inq)) = "chat_response"
           /\ "payload" \in DOMAIN Head(sock[s].inq)) =>
             /\ ~isThinking'
             /\ messages' = Append(messages,
                    [role |-> "assistant",
                     content |-> Head(sock[s].inq).payload.message,
                     transactions |-> OrElse(Head(sock[s].inq).payload,
                                             "transactions", << >>),
                     timestamp |-> Head(sock[s].inq).payload.timestamp,
                     llmStats |-> Null])]_vars

\* C8 witness: the request was cancelled ("thinking" is already false, the
\* cancel frame is on its way) while its chat_response is still on its way to
\* the client.
C8_Witness ==
  /\ wsOpen
  /\ ~isThinking
  /\ messages = << UserMessage("hi") >>
  /\ sock[ws].outq = << CancelFrame >>
  /\ sock[ws].inq = << ChatResponseFrame >>

\* C9: whenever "thinking" is true it eventually becomes false.
C9_ThinkingClears == isThinking ~> ~isThinking

\* C10: sendMessage(text) while ConnectionState is not Connected sets the
\* local error, transmits no frame, appends no message and leaves "thinking"
\* unchanged.
C10_SendWhileNotConnected ==
  [][(SendMessage /\ connectionState # CONNECTED) =>
        /\ error' = "Not connected"
        /\ sock' = sock
        /\ messages' = messages
        /\ isThinking' = isThinking]_vars

\* the types of the frames the protocol defines
KnownTypes == {"connected", "chat_response", "error", "cancelled", "pong", "cleared"}

\* the frame the next message event of socket s delivers is discarded
Discarded(s) ==
  \/ ~Decodable(Head(sock[s].inq))
  \/ typeOf(Head(sock[s].inq)) \notin KnownTypes

\* C11: a message event whose frame is not decodable JSON, or has a type
\* outside the closed set, changes neither the message list, "thinking", the
\* last error, ConnectionState, SessionIdentity nor stats; the frame is
\* consumed and the socket stays open with no task pending, so the frames
\* after it are delivered as before.
C11_UnknownFrameDiscarded ==
  [][\A s \in Slots :
       (OnMessage(s) /\ Discarded(s)) =>
          /\ UNCHANGED << messages, isThinking, error, connectionState,
                          sessionId, stats, ws, reconnectAttempts, timers >>
          /\ sock' = [sock EXCEPT ![s].inq = Tail(sock[s].inq)]
          /\ sock'[s].readyState = "OPEN"
          /\ task' = 0]_vars

\* C11 witness: text that is not JSON is about to be delivered while a request
\* is outstanding ("thinking" is true, the backend is still generating the
\* reply that will follow it).
C11_Witness ==
  /\ wsOpen
  /\ isThinking
  /\ messages = << UserMessage("hi") >>
  /\ sock[ws].inq = << NotJSON >>
  /\ sock[ws].busy

\* the last entry of a list
Last(q) == q[Len(q)]

\* C12: a message event delivering a chat_response frame (type and payload)
\* clears "thinking" and
\* appends exactly one entry at the end of the message list: role assistant,
\* the frame's message text, the frame's transactions (an empty list when it
\* carries none) and the frame's timestamp; ConnectionState, SessionIdentity
\* and the last error are unchanged.
C12_ChatResponseAppends ==
  [][\A s \in Slots :
       (/\ OnMessage(s)
        /\ typeOf(Head(sock[s].inq)) = "chat_response"
        /\ "payload" \in DOMAIN Head(sock[s].inq)) =>
          LET payload == Head(sock[s].inq).payload IN
            /\ ~isThinking'
            /\ Len(messages') = Len(messages) + 1
            /\ SubSeq(messages', 1, Len(messages)) = messages
            /\ Last(messages').role = "assistant"
            /\ Last(messages').content = payload.message
            /\ Last(messages').transactions =
                 (IF "transactions" \in DOMAIN payload
                    THEN payload.transactions ELSE << >>)
            /\ Last(messages').timestamp = payload.timestamp
            /\ UNCHANGED << connectionState, sessionId, error >>]_vars

\* C12 witness: the reply to the user's question has been appended with its
\* transactions, and "thinking" is cleared.
C12_Witness ==
  /\ ~isThinking
  /\ connectionState = CONNECTED
  /\ messages = << UserMessage("hi"),
                   [role |-> "assistant", content |-> "answer",
                    transactions |-> << "tx" >>, timestamp |-> "t1",
                    llmStats |-> Null] >>

\* C13: a message event delivering an error frame (type and payload) clears
\* "thinking", sets the
\* last error to the frame's message and appends exactly one entry at the end
\* of the message list: role error, carrying the frame's code; ConnectionState
\* and SessionIdentity are unchanged.
C13_ErrorFrameAppends ==
  [][\A s \in Slots :
       (/\ OnMessage(s)
        /\ typeOf(Head(sock[s].inq)) = "error"
        /\ "payload" \in DOMAIN Head(sock[s].inq)) =>
          LET payload == Head(sock[s].inq).payload IN
            /\ ~isThinking'
            /\ error' = payload.message
            /\ Len(messages') = Len(messages) + 1
            /\ SubSeq(messages', 1, Len(messages)) = messages
            /\ Last(messages').role = "error"
            /\ Last(messages').code = payload.code
            /\ UNCHANGED << connectionState, sessionId >>]_vars

\* C13 witness: the backend answered the user's question with an error frame;
\* the session is still established.
C13_Witness ==
  /\ ~isThinking
  /\ error = "boom"
  /\ connectionState = CONNECTED
  /\ sessionId # NoSession
  /\ messages = << UserMessage("hi"),
                   [role |-> "error", content |-> "boom", code |-> "E1"] >>

\* C14: between any two tasks, while ConnectionState is Disconnected or
\* Connecting the session id is none, and a session id that is not none is the
\* one the backend assigned to the transport ws refers to, which is open.
C14_SessionIdentity ==
  task = 0 =>
    /\ connectionState \in {DISCONNECTED, CONNECTING} => sessionId = NoSession
    /\ sessionId # NoSession => (wsOpen /\ sessionId = ws)

\* C15: every step other than clearMessages() leaves the message list as it
\* was or appends one entry to it; clearMessages() empties the list whatever
\* the connection state, and sends one clear frame if the transport is open
\* and nothing otherwise.
C15_AppendOnly ==
  [][/\ ~ClearMessages =>
          \/ messages' = messages
          \/ /\ Len(messages') = Len(messages) + 1
             /\ SubSeq(messages', 1, Len(messages)) = messages
     /\ ClearMessages =>
          /\ messages' = << >>
          /\ sock' = IF wsOpen
                       THEN [sock EXCEPT ![ws].outq = Append(@, [type |-> "clear"])]
                       ELSE sock]_vars

\* C15 witness: the list was cleared while no transport was open (a question
\* had been asked, "thinking" is still true, and nothing is on any wire).
C15_Witness ==
  /\ messages = << >>
  /\ isThinking
  /\ ~wsOpen
  /\ \A s \in Slots : sock[s].outq = << >>

\* the backend has pushed no connected frame that is still to be delivered
NoGreeting == \A s \in Slots : Count(sock[s].inq, {"connected"}) = 0

\* C16: in a run in which, from some point on, the caller issues no command,
\* and in which the backend never pushes a connected frame (so none is ever
\* handled: it accepts connections and drops them), eventually no reconnect
\* timer is pending any more, for good.
C16_BoundedRetry ==
  (<>[][~Caller]_vars /\ [](NoGreeting /\ connectionState # CONNECTED))
     => <>[](timers = EmptyBag)

\* ---- the rendering status of a percentage, as the contract words it
Status(p) == IF p >= 100 THEN "over" ELSE IF p >= 80 THEN "warning" ELSE "ok"

BarColor   == [over |-> "bg-red-500", warning |-> "bg-yellow-500", ok |-> "bg-green-500"]
LabelColor == [over |-> "text-red-500", warning |-> "text-yellow-600 dark:text-yellow-400",
               ok |-> "text-green-500"]
TextColor  == [over |-> "text-red-500", warning |-> "text-yellow-500", ok |-> "text-green-500"]

\* C17: the percentage p the reply states is stored as it is; the bar and its
\* label are red from 100 on, yellow from 80 to 99 and green below 80; the
\* bar is min(p, 100) wide while the label shows p itself; and "p% used"
\* inside the text has the color of the same status.
C17_PercentThresholds ==
  /\ \A p \in 0 .. MaxPercent :
       message # NoMessage /\ message.content = BudgetText(p)
         => budgetInfo # NoWidget /\ budgetInfo.percent = p
  /\ budgetInfo # NoWidget =>
       LET p == budgetInfo.percent IN
       /\ barClass(p) = BarColor[Status(p)]
       /\ labelClass(p) = LabelColor[Status(p)]
       /\ barWidth(p) = (IF p <= 100 THEN p ELSE 100)
       /\ label(p) = ToString(p) \o "% used"
       /\ includes(message.content, "(" \o ToString(p) \o "% used)")
            => includes(formattedContent,
                        "(<span class=\"" \o TextColor[Status(p)] \o "\">"
                          \o ToString(p) \o "% used</span>)")

\* a budget bar for more than 100 percent: full width, the label unclamped
C17_Witness ==
  /\ budgetInfo # NoWidget
  /\ budgetInfo.percent > 100
  /\ barWidth(budgetInfo.percent) = 100
  /\ label(budgetInfo.percent) = ToString(budgetInfo.percent) \o "% used"
  /\ includes(formattedContent, "text-red-500")

\* ---- what a reply states, read as the contract words the two templates
\* the amounts the replies state, with their values in hundredths
Amounts ==
  { [text |-> "R8,000.00", value |-> 800000], [text |-> "R8,480.00", value |-> 848000],
    [text |-> "R1,500.50", value |-> 150050], [text |-> "R2,000.00", value |-> 200000] }

NoAmount == [text |-> "", value |-> 0 - 1]

\* the amounts that stand at position i of content between the words before and after
AmountsAt(content, i, before, after) ==
  {a \in Amounts : LitAt(content, i, before \o a.text \o after)}

\* the first place from position from on where an amount stands between before and after (0: none)
FirstPlace(content, from, before, after) ==
  LET places == {i \in from .. Len(content) : AmountsAt(content, i, before, after) # {}}
  IN IF places = {} THEN 0 ELSE Min(places)

\* the amount there
AmountIn(content, i, before, after) ==
  IF i = 0 THEN NoAmount ELSE CHOOSE a \in AmountsAt(content, i, before, after) : TRUE

\* the N of the first "<before>N<after>" of content, N not the end of a longer number (-1: none)
FirstNumber(content, before, after) ==
  LET stands(i, n) == /\ LitAt(content, i, before \o ToString(n) \o after)
                      /\ (before = "" => charAt(content, i - 1) \notin Digit)
      places == {i \in 1 .. Len(content) :
                   /\ charAt(content, i + Len(before)) \in Digit
                   /\ \E n \in 0 .. MaxPercent : stands(i, n)}
  IN IF places = {} THEN 0 - 1
     ELSE CHOOSE n \in 0 .. MaxPercent : stands(Min(places), n)

\* the first "spent <amount1>" that "of <amount2> budget" follows on its line (0: none)
SpentOfPlace(content) ==
  LET places == {i \in 1 .. Len(content) :
                   /\ AmountsAt(content, i, "spent ", "") # {}
                   /\ \E j \in i + 1 .. LineEnd(content, i) :
                        AmountsAt(content, j, "of ", " budget") # {}}
  IN IF places = {} THEN 0 ELSE Min(places)

\* the budget progress the contract promises for this text
Promised(content) ==
  LET budget  == AmountIn(content, FirstPlace(content, 1, "budget is ", ""), "budget is ", "")
      spent   == AmountIn(content, FirstPlace(content, 1, "spent ", ""), "spent ", "")
      used    == FirstNumber(content, "(", "% used)")
      spentOf == SpentOfPlace(content)
      ofPlace == FirstPlace(content, spentOf + 1, "of ", " budget")
      bare    == FirstNumber(content, "", "%")
  IN IF budget # NoAmount /\ spent # NoAmount /\ used >= 0
       THEN [budget |-> budget.value, spent |-> spent.value, percent |-> used]
     ELSE IF spentOf # 0 /\ bare >= 0
       THEN [budget  |-> AmountIn(content, ofPlace, "of ", " budget").value,
             spent   |-> AmountIn(content, spentOf, "spent ", "").value,
             percent |-> bare]
     ELSE NoWidget

\* the budget, the amount spent and the percentage of a budget progress
Progress3(info) ==
  IF info = NoWidget THEN NoWidget
  ELSE [budget |-> info.budget, spent |-> info.spent, percent |-> info.percent]

\* C18: a message has one budget progress or none. When the text holds
\* "budget is <amount1>", "spent <amount2>" and "(N% used)", it is amount1,
\* amount2 and N (the first of each); otherwise, when "spent <amount1>" is
\* followed on its line by "of <amount2> budget" and the text holds a number
\* before "%", it is spent = amount1, budget = amount2 and that number;
\* otherwise there is none. Amounts are worth their decimal value.
C18_TwoTemplates ==
  message # NoMessage => Progress3(budgetInfo) = Promised(message.content)

\* the second template applied, the first one not matching in full
C18_Witness ==
  /\ message # NoMessage
  /\ ~includes(message.content, "budget is ")
  /\ budgetInfo # NoWidget
  /\ budgetInfo.spent = 150050
  /\ budgetInfo.budget = 200000
  /\ budgetInfo.percent = 75

\* ---- plain text, read as the contract words the patterns: every one of them
\* needs an amount, a percentage, a date, a marker or the phrase OVER BUDGET
\* an amount (R and a digit, comma or point), a percentage (a digit and %), the
\* year and month of a date, or one of the literal markers, at position i
TokenAt(content, i) ==
  \/ charAt(content, i) = "R" /\ charAt(content, i + 1) \in AmountChar
  \/ charAt(content, i) \in Digit /\ charAt(content, i + 1) = "%"
  \/ Scan(content, i, << Exactly(Digit, 4), L("-"), Exactly(Digit, 2) >>) # << >>
  \/ \E marker \in {"OVER BUDGET", ">>>", "<<<", "TOTALING:"} : LitAt(content, i, marker)

Plain(content) == \A i \in 1 .. Len(content) : ~TokenAt(content, i)

\* one character, HTML-escaped
EscapedChar(c) ==
  CASE c = "&" -> "&amp;" [] c = "<" -> "&lt;" [] c = ">" -> "&gt;" [] OTHER -> c

\* the characters a .. b of content, each HTML-escaped
RECURSIVE EscapedRange(_, _, _)
EscapedRange(content, a, b) ==
  IF a > b THEN ""
  ELSE IF a = b THEN EscapedChar(charAt(content, a))
  ELSE EscapedRange(content, a, (a + b) \div 2)
         \o EscapedRange(content, ((a + b) \div 2) + 1, b)

\* C19: a text that holds no amount, no percentage, no date, no marker and
\* not the phrase OVER BUDGET is shown as it is, HTML-escaped and nothing
\* else, with no budget bar and, unless the message carries transactions,
\* no chart.
C19_PlainTextIsEscapedText ==
  message # NoMessage /\ Plain(message.content) =>
    /\ formattedContent = EscapedRange(message.content, 1, Len(message.content))
    /\ budgetInfo = NoWidget
    /\ message.transactions = << >> => spendingChart = NoWidget

\* ---- the monthly spending of a list of transactions, as the contract words it
\* the transactions that count: debits that are not fees
Qualifying(transactions) ==
  {k \in DOMAIN transactions :
     /\ transactions[k].transaction_type = "debit"
     /\ transactions[k].category # "fees"}

\* the month of a transaction, and the months since year 0 of a month YYYY-MM
MonthOf(tx) == SubSeq(tx.date, 1, 7)
MonthNumber(month) == parseInt(SubSeq(month, 1, 4)) * 12 + parseInt(SubSeq(month, 6, 7))

\* the amounts (in hundredths) of the qualifying transactions of a month, summed
\* over the first n transactions
RECURSIVE SpentIn(_, _, _)
SpentIn(transactions, month, n) ==
  IF n = 0 THEN 0
  ELSE SpentIn(transactions, month, n - 1)
         + (IF n \in Qualifying(transactions) /\ MonthOf(transactions[n]) = month
              THEN parseFloat(transactions[n].amount) ELSE 0)

\* C20: there is a chart exactly when at least 3 transactions are debits
\* that are not fees and these fall into at least 2 months. The chart then
\* has one entry for each of their months, the 12 latest when there are more,
\* the later month first, and the total of an entry is the sum of the
\* amounts of the debits that are not fees of that month.
C20_MonthlySpending ==
  message # NoMessage =>
    LET transactions == message.transactions
        months == {MonthOf(transactions[k]) : k \in Qualifying(transactions)}
        chart  == spendingChart.months
    IN IF Cardinality(Qualifying(transactions)) >= 3 /\ Cardinality(months) >= 2
         THEN /\ spendingChart # NoWidget
              /\ Len(chart) = (IF Cardinality(months) <= 12 THEN Cardinality(months) ELSE 12)
              /\ \A i \in DOMAIN chart :
                   /\ chart[i].month \in months
                   /\ chart[i].total = SpentIn(transactions, chart[i].month, Len(transactions))
                   /\ \A j \in DOMAIN chart :
                        i < j => MonthNumber(chart[i].month) > MonthNumber(chart[j].month)
              /\ \A month \in months :
                   (\A i \in DOMAIN chart : chart[i].month # month)
                     => \A i \in DOMAIN chart : MonthNumber(month) < MonthNumber(chart[i].month)
         ELSE spendingChart = NoWidget

\* a chart of 12 months for a history of more than 12, and a chart in which
\* two purchases of one month are added up
C20_Witness ==
  /\ message # NoMessage
  /\ spendingChart # NoWidget
  /\ \/ Len(spendingChart.months) = 12 /\ Len(message.transactions) > 12
     \/ /\ Len(spendingChart.months) = 2
        /\ spendingChart.months[2].total = 36550
        /\ \E k \in DOMAIN message.transactions : message.transactions[k].category = "fees"

\* ---- what a call of connect() does to the transports
\* the slots in which this step has put a new socket
Opened == {s \in Slots : sock'[s] = NewSocket /\ sock[s].readyState \in {"FREE", "CLOSED"}}

\* this step has opened exactly one transport, which ws now refers to, and has
\* touched no other (a closed socket that nothing refers to any more is gone)
OpensOne ==
  /\ Cardinality(Opened) = 1
  /\ ws' \in Opened
  /\ \A s \in Slots \ Opened :
       \/ sock'[s] = sock[s]
       \/ sock[s].readyState = "CLOSED" /\ sock'[s] = FreeSocket

\* what connect() does when it does connect
Connects ==
  /\ connectionState' = CONNECTING
  /\ error' = Null
  /\ OpensOne
  /\ UNCHANGED << sessionId, messages, isThinking, stats, reconnectAttempts, timers >>

\* C23 as stated: connect() changes nothing while ConnectionState is Connected;
\* in every other state (between tasks, with room for one more transport) it
\* sets Connecting, clears the last error and opens exactly one transport;
\* neither connect() nor disconnect() changes the attempt counter.
C23_ConnectUnlessConnected ==
  task = 0 =>
    /\ connectionState = CONNECTED => ~ENABLED (Connect /\ vars' # vars)
    /\ (connectionState # CONNECTED /\ ConnectRoom) => ENABLED (Connect /\ Connects)
    /\ ~ENABLED ((Connect \/ Disconnect) /\ reconnectAttempts' # reconnectAttempts)

\* C23, amended: connect() changes nothing while the transport ws refers to is
\* open, whatever ConnectionState is; otherwise it sets Connecting, clears the
\* last error and opens exactly one new transport; the attempt counter is
\* reset to 0 only by a transport-open event, and neither connect() nor
\* disconnect() changes it.
C23_ConnectUnlessOpen ==
  [][/\ Connect => IF wsOpen THEN UNCHANGED vars ELSE Connects
     /\ (reconnectAttempts # 0 /\ reconnectAttempts' = 0) => \E s \in Slots : OnOpen(s)
     /\ (Connect \/ Disconnect) => reconnectAttempts' = reconnectAttempts]_vars

\* C23 witness: connect() has opened a transport after a failure: the state
\* is Connecting, the error of the failed attempt is cleared, its reconnect
\* timer is still pending and the counter still counts it.
C23_Witness ==
  /\ connectionState = CONNECTING
  /\ error = Null
  /\ ws # NoSocket /\ sock[ws].readyState = "CONNECTING"
  /\ reconnectAttempts = 1
  /\ timers = SetToBag({2000})

\* C24: a transport-error event sets ConnectionState to Errored and sets the
\* last error; it schedules no reconnect and leaves the attempt counter, the
\* message list and "thinking" as they were. Nothing but the close event of
\* the same transport follows it, and whenever a reconnect is scheduled it is
\* by a transport-close event, which sets ConnectionState to Disconnected.
C24_ErrorThenClose ==
  [][/\ \A s \in Slots :
          OnError(s) =>
            /\ connectionState' = ERROR
            /\ error' # Null
            /\ UNCHANGED << timers, reconnectAttempts, messages, isThinking >>
            /\ task' = s
     /\ \A s \in Slots : task = s => OnClose(s)
     /\ BagCardinality(timers') > BagCardinality(timers) =>
          /\ \E s \in Slots : OnClose(s)
          /\ connectionState' = DISCONNECTED]_vars

\* C24 witness: the transport failed while a reply was outstanding; the error
\* event has been handled and the close event has not: Errored, the error set,
\* "thinking" still true, no reconnect scheduled, the counter still 0.
C24_Witness ==
  /\ task # 0
  /\ connectionState = ERROR
  /\ error = "Connection error"
  /\ isThinking
  /\ messages = << UserMessage("hi") >>
  /\ timers = EmptyBag
  /\ reconnectAttempts = 0

\* C25: a message event delivering a cancelled, pong or cleared frame leaves
\* the message list, ConnectionState, SessionIdentity and the last error as
\* they were; pong and cleared change nothing of the session at all (the
\* frame is consumed), and cancelled changes only "thinking", to false.
\* ping() puts one ping frame on the wire when the transport is open, and
\* changes nothing besides; when it is not open, ping() does nothing.
C25_QuietFrames ==
  [][/\ \A s \in Slots :
          (OnMessage(s) /\ typeOf(Head(sock[s].inq)) \in {"cancelled", "pong", "cleared"}) =>
             /\ UNCHANGED << messages, connectionState, sessionId, error, stats,
                             ws, reconnectAttempts, timers, task >>
             /\ sock' = [sock EXCEPT ![s].inq = Tail(sock[s].inq)]
             /\ isThinking' = (IF typeOf(Head(sock[s].inq)) = "cancelled"
                                 THEN FALSE ELSE isThinking)
     /\ Ping =>
          /\ wsOpen
          /\ sock' = [sock EXCEPT ![ws].outq = Append(sock[ws].outq, [type |-> "ping"])]
          /\ UNCHANGED << store, ws, reconnectAttempts, timers, task >>]_vars

\* C25 witness: the pong that answers a ping is about to be delivered while a
\* reply is outstanding ("thinking" is true and the backend is generating).
C25_Witness ==
  /\ wsOpen
  /\ isThinking
  /\ messages = << UserMessage("hi") >>
  /\ sock[ws].inq = << PongFrame >>
  /\ sock[ws].busy

\* a frame of a known type whose payload is missing
Malformed(frame) ==
  /\ typeOf(frame) \in {"connected", "chat_response", "error"}
  /\ "payload" \notin DOMAIN frame

\* C26: a message event delivering a frame of a known type whose payload is
\* missing changes none of ConnectionState, SessionIdentity, stats,
\* "thinking", the last error and the message list.
C26_MalformedFrameDiscarded ==
  [][\A s \in Slots :
       (OnMessage(s) /\ Malformed(Head(sock[s].inq))) =>
          UNCHANGED << connectionState, sessionId, stats, isThinking, error,
                       messages >>]_vars

\* an event of socket s: its close, error or message event
EventOf(s) == OnClose(s) \/ OnError(s) \/ OnMessage(s)

\* C30: an event of a transport that ws does not refer to (any more) changes
\* neither ConnectionState, SessionIdentity, "thinking", the message list nor
\* the attempt counter and schedules no reconnect; and whenever
\* ConnectionState is Connected, the transport ws refers to is open and the
\* session id, if there is one, is the one its connected frame carried.
C30_SupersededTransportIsInert ==
  /\ [][\A s \in Slots :
          (s # ws /\ EventOf(s)) =>
             UNCHANGED << connectionState, sessionId, isThinking, messages,
                          reconnectAttempts, timers >>]_vars
  /\ [](connectionState = CONNECTED =>
          /\ wsOpen
          /\ sessionId # NoSession => sessionId = ws)

\* C21: whatever the text of the message, the formatted content holds no
\* banner marker: neither the escaped ">>>" nor the escaped "<<<".
C21_NoMarkerLeft ==
  /\ ~includes(formattedContent, "&gt;&gt;&gt;")
  /\ ~includes(formattedContent, "&lt;&lt;&lt;")

\* ---- the amounts after "by"
\* what the phrase-coloring step puts in front of an amount it paints red
RedBy == "by <span class=\"text-red-500 font-semibold\">"

\* the places of text where the literal stands
Places(text, lit) == {i \in 1 .. Len(text) : LitAt(text, i, lit)}

\* the places of text where "over budget by <amount>" stands, in either case
OverBudgetBy(text) ==
  {i \in 1 .. Len(text) :
     LitAtI(text, i, "over budget by R") /\ charAt(text, i + 16) \in AmountChar}

\* C29: the amounts the formatted content shows in red after "by" are those
\* that follow "over budget by" in the text, and no other.
C29_ByAfterOverBudgetOnly ==
  message # NoMessage =>
    Cardinality(Places(formattedContent, RedBy)) = Cardinality(OverBudgetBy(message.content))

\* ---- the lists of the replies, read as the contract words them
\* what each line says: a transaction row without a debit/credit token (its
\* date, its description, its amount; "" for a part it does not have), a
\* typed line, text with an amount in it, or text without
Reading(line) ==
  CASE line = "- 2025-09-05: Coffee Shop - R45.00" ->
         [kind |-> "row", date |-> "2025-09-05", text |-> "Coffee Shop", amount |-> "R45.00"]
    [] line = "- 2025-09-06: Groceries - R320.50" ->
         [kind |-> "row", date |-> "2025-09-06", text |-> "Groceries", amount |-> "R320.50"]
    [] line = "2025-04: Bank fee - R2.50" ->
         [kind |-> "row", date |-> "2025-04", text |-> "Bank fee", amount |-> "R2.50"]
    [] line = "2025-04-01: Card fee - R3.50" ->
         [kind |-> "row", date |-> "2025-04-01", text |-> "Card fee", amount |-> "R3.50"]
    [] line = "Fuel | R1,000.00" ->
         [kind |-> "row", date |-> "", text |-> "Fuel", amount |-> "R1,000.00"]
    [] line = "- R1,200.00 (2025-11-03)" ->
         [kind |-> "row", date |-> "2025-11-03", text |-> "", amount |-> "R1,200.00"]
    [] line = "2025-09-05: R45.00 debit" ->
         [kind |-> "debit", date |-> "2025-09-05", text |-> "", amount |-> "R45.00"]
    [] line = "2025-09-06: R320.50 credit (salary)" ->
         [kind |-> "credit", date |-> "2025-09-06", text |-> "salary", amount |-> "R320.50"]
    [] line = "- 2025-09-07: R1,381.00 debit (payment)" ->
         [kind |-> "debit", date |-> "2025-09-07", text |-> "payment", amount |-> "R1,381.00"]
    [] line = "- about R5 in cash" ->
         [kind |-> "text", date |-> "", text |-> "about R5 in cash", amount |-> "R5"]
    [] line = "- nothing here" ->
         [kind |-> "text", date |-> "", text |-> "nothing here", amount |-> ""]
    [] line = "- no transactions above R500.00" ->
         [kind |-> "text", date |-> "", text |-> "no transactions above R500.00",
          amount |-> "R500.00"]

\* the lines of a reply are all of these kinds
AllOf(reply, kinds) ==
  \A k \in DOMAIN reply.lines : Reading(reply.lines[k]).kind \in kinds

\* the header speaks of money received
SaysCredit(header) == header \in {"Deposits received:", "CREDIT notes:"}

\* the amount cell of a row of the given sign
AmountCell(credit, amount) ==
  TDAmount(IF credit THEN CreditClass ELSE DebitClass)
    \o (IF credit THEN "+" ELSE "-") \o amount \o "</td>"

\* a transaction row: the cells for the parts it has, then the amount
RowFor(r, credit) ==
  TR \o (IF r.date # "" THEN TDDate \o r.date \o "</td>" ELSE "")
     \o (IF r.text # "" THEN TDText \o r.text \o "</td>" ELSE "")
     \o AmountCell(credit, r.amount) \o "</tr>"

\* one cell that spans the table
TextRow(text) == TR \o "<td class=\"py-2\" colspan=\"3\">" \o text \o "</td></tr>"

\* the header and, under it, one table of these rows
TableOf(header, rows) ==
  header \o "<table class=\"mt-3 text-sm w-full\"><tbody>" \o join(rows) \o "</tbody></table>"

Kept(r, credit) ==
  IF r.kind = "row" THEN RowFor(r, credit)
  ELSE IF r.amount # "" THEN TextRow(r.text)
  ELSE ""

C28_TypedLinesAreRows ==
  \A reply \in ListReplies :
    (message # NoMessage /\ message.content = reply.text
       /\ AllOf(reply, {"debit", "credit"})) =>
       /\ includes(formattedContent, "<table")
       /\ \A k \in DOMAIN reply.lines :
            LET r == Reading(reply.lines[k]) IN
            includes(formattedContent, AmountCell(r.kind = "credit", r.amount))

====
